---- MODULE Spec2Model ----
(***************************************************************************)
(* Transform hierarchy (pc.GraphNode) and skeletal animation evaluator     *)
(* (pc.Skeleton) of PlayCanvasTS, as a state machine.                      *)
(*                                                                         *)
(* Geometry is modelled exactly in one dimension over the field Z_7: a     *)
(* coordinate is a residue, a rotation is an element of the order-3        *)
(* subgroup {1,2,4}, a (non-zero) scale is an element of the order-2       *)
(* subgroup {1,6}, and a Mat4 is an affine map x |-> m*x + t.  Every       *)
(* non-zero multiplier m factors uniquely as rotation * scale;             *)
(* Quat.setFromMat4 extracts the rotation factor, getScale the magnitude   *)
(* of the scale factor.  m = 0 is a singular matrix.                       *)
(***************************************************************************)
EXTENDS Integers, Sequences, FiniteSets, TLC

\* The number of state-changing operations explored from an initial scene.
MaxSteps == 3
MaxAnimSteps == 5

\* The scene: three nodes, enough for a chain A -> B -> C and for a node with
\* both an ancestor and a sibling.
Null == 0
Nodes == 1 .. 3

Coord == 0 .. 6
Wrap(x) == x % Cardinality(Coord)

\* Inputs the operations are called with.
PosIn == {1}
RotIn == {2}
ScaleIn == {0, 6}
EulerIn == {2}
IndexIn == {0}

-----------------------------------------------------------------------------
\* Math primitives

Vec3_add(a, b) == Wrap(a + b)
Vec3_mul2(a, b) == Wrap(a * b)

Quat_mul(a, b) == Wrap(a * b)
Quat_invert(q) == Wrap(q * q * q * q * q)
Quat_setFromEulerAngles(e) == IF e = 0 THEN 1 ELSE IF e = 1 THEN 2 ELSE 4
Quat_transformVector(q, v) == Wrap(q * v)
Quat_setFromMat4(M) == Wrap(M.m * M.m * M.m * M.m)

Mat4_identity == [m |-> 1, t |-> 0]
Mat4_setTRS(t, r, s) == [m |-> Wrap(r * s), t |-> t]
Mat4_mul2(A, B) == [m |-> Wrap(A.m * B.m), t |-> Wrap(A.m * B.t + A.t)]
Mat4_transformPoint(A, v) == Wrap(A.m * v + A.t)
Mat4_getTranslation(A) == A.t
\* The lengths of the axis vectors: 0 for a singular matrix, 1 otherwise (every
\* non-zero scale of the model has magnitude 1).
Mat4_getScale(A) == IF A.m = 0 THEN 0 ELSE 1
Mat4_invert(A) ==
    IF A.m = 0 THEN Mat4_identity
    ELSE LET im == CHOOSE y \in Coord : Wrap(A.m * y) = 1
         IN [m |-> im, t |-> Wrap(im * (Cardinality(Coord) - A.t))]

-----------------------------------------------------------------------------
\* State

VARIABLES
    parent, children, graphDepth,
    localPosition, localRotation, localScale,
    localTransform, worldTransform,
    dirtyLocal, dirtyWorld, aabbVer,
    enabled, enabledInHierarchy, scaleCompensation,
    syncQueue,
    skeleton,
    threw, steps

nodeVars == <<parent, children, graphDepth, localPosition, localRotation, localScale,
              localTransform, worldTransform, dirtyLocal, dirtyWorld, aabbVer,
              enabled, enabledInHierarchy, scaleCompensation>>
vars == <<nodeVars, syncQueue, skeleton, threw, steps>>

\* The mutable objects as one value, so that a handler is a function on it.
\* err: an exception is propagating; synced: the nodes _sync ran on, in order;
\* pushed: the nodes pushed to the SyncQueue, in order.
Heap ==
    [parent |-> parent, children |-> children, graphDepth |-> graphDepth,
     localPosition |-> localPosition, localRotation |-> localRotation,
     localScale |-> localScale, localTransform |-> localTransform,
     worldTransform |-> worldTransform, dirtyLocal |-> dirtyLocal,
     dirtyWorld |-> dirtyWorld, aabbVer |-> aabbVer, enabled |-> enabled,
     enabledInHierarchy |-> enabledInHierarchy,
     scaleCompensation |-> scaleCompensation, syncQueue |-> syncQueue,
     err |-> FALSE, synced |-> <<>>, pushed |-> <<>>]

Throw(h) == [h EXCEPT !.err = TRUE]

-----------------------------------------------------------------------------
\* SyncQueue (owned by the application)

SyncQueue_push(q, depth, n) == q \cup {<<depth, n>>}
SyncQueue_erase(q, n) == {e \in q : e[2] # n}

\* Variant: the entry is keyed so that deeper nodes come first.
_queueSync_deepFirst(h, n) ==
    [h EXCEPT !.syncQueue = SyncQueue_push(@, 0 - h.graphDepth[n], n)]

_queueSync(h, n) ==
    [h EXCEPT !.syncQueue = SyncQueue_push(@, h.graphDepth[n], n),
              !.pushed = Append(@, n)]
_cancelSync(h, n) ==
    [h EXCEPT !.syncQueue = SyncQueue_erase(@, n)]

-----------------------------------------------------------------------------
\* Dirty flags

RECURSIVE _dirtifyWorldImpl(_, _)
RECURSIVE DirtifyChildren(_, _, _)

\* Variant: the descendants are not marked.
DirtifyChildren_skip(h, n, i) == h

DirtifyChildren(h, n, i) ==
    IF i > Len(h.children[n]) THEN h
    ELSE LET c == h.children[n][i]
         IN DirtifyChildren(IF ~h.dirtyWorld[c] THEN _dirtifyWorldImpl(h, c) ELSE h,
                            n, i + 1)

\* Variant: the version counter is left alone.
_dirtifyWorldImpl_sameVer(h, n) ==
    DirtifyChildren([h EXCEPT !.dirtyWorld[n] = TRUE], n, 1)

\* Variant: the parent is marked as well.
_dirtifyWorldImpl_up(h, n) ==
    LET h1 == [h EXCEPT !.dirtyWorld[n] = TRUE]
        h2 == DirtifyChildren(h1, n, 1)
        h3 == [h2 EXCEPT !.aabbVer[n] = @ + 1]
    IN IF h.parent[n] # Null THEN [h3 EXCEPT !.dirtyWorld[h.parent[n]] = TRUE] ELSE h3

_dirtifyWorldImpl(h, n) ==
    LET h1 == [h EXCEPT !.dirtyWorld[n] = TRUE]
        h2 == DirtifyChildren(h1, n, 1)
    IN [h2 EXCEPT !.aabbVer[n] = @ + 1]

\* Variant: the node is marked without being queued.
_dirtifyWorld_unqueued(h, n) ==
    IF ~h.dirtyWorld[n] THEN _dirtifyWorldImpl(h, n) ELSE h

_dirtifyWorld(h, n) ==
    IF ~h.dirtyWorld[n]
    THEN LET h1 == _queueSync(h, n)
         IN IF ~h1.dirtyWorld[n] THEN _dirtifyWorldImpl(h1, n) ELSE h1
    ELSE h

\* Variant: the node is queued at every change of the local flag.
_dirtifyLocal_requeue(h, n) ==
    IF ~h.dirtyLocal[n]
    THEN LET h1 == _queueSync([h EXCEPT !.dirtyLocal[n] = TRUE], n)
         IN IF ~h1.dirtyWorld[n] THEN _dirtifyWorldImpl(h1, n) ELSE h1
    ELSE h

\* Variant: the local flag is set without the world flag.
_dirtifyLocal_only(h, n) ==
    IF ~h.dirtyLocal[n] THEN [h EXCEPT !.dirtyLocal[n] = TRUE] ELSE h

_dirtifyLocal(h, n) ==
    IF ~h.dirtyLocal[n]
    THEN LET h1 == [h EXCEPT !.dirtyLocal[n] = TRUE]
         IN IF ~h1.dirtyWorld[n] THEN _dirtifyWorld(h1, n) ELSE h1
    ELSE h

\* The tail of every setter: if (!this._dirtyLocal) this._dirtifyLocal()
DirtifyIfClean(h, n) == IF ~h.dirtyLocal[n] THEN _dirtifyLocal(h, n) ELSE h

-----------------------------------------------------------------------------
\* Resolve

getLocalTransform(h, n) ==
    IF h.dirtyLocal[n]
    THEN [h EXCEPT !.localTransform[n] =
                       Mat4_setTRS(h.localPosition[n], h.localRotation[n], h.localScale[n]),
                   !.dirtyLocal[n] = FALSE]
    ELSE h

RECURSIVE SkipCompensated(_, _)
\* while (p && p.scaleCompensation) p = p._parent
SkipCompensated(h, p) ==
    IF p # Null /\ h.scaleCompensation[p] THEN SkipCompensated(h, h.parent[p]) ELSE p

\* Variant: the scale is taken from the first uncompensated ancestor itself.
scaleCompensateScale_fromTop(h, n) ==
    LET from == SkipCompensated(h, h.parent[n])
    IN IF from # Null
       THEN Vec3_mul2(Mat4_getScale(h.worldTransform[from]), h.localScale[n])
       ELSE h.localScale[n]

\* The scale the compensated branch composes the world matrix of n from:
\* parentToUseScaleFrom is the parent of the node the loop stops at.
scaleCompensateScale(h, n) ==
    LET top == SkipCompensated(h, h.parent[n])
        from == IF top # Null THEN h.parent[top] ELSE Null
    IN IF from # Null
       THEN Vec3_mul2(Mat4_getScale(h.worldTransform[from]), h.localScale[n])
       ELSE h.localScale[n]

\* The scale-compensated branch of _sync.  parentWorldScale stays undefined
\* (Null) when no ancestor supplies it; Vec3.mul2 on it throws.
SyncCompensated(h, n) ==
    LET p == h.parent[n]
        top == SkipCompensated(h, p)
        from == IF top # Null THEN h.parent[top] ELSE Null
        hasScale == from # Null
        parentWorldScale == IF hasScale THEN Mat4_getScale(h.worldTransform[from]) ELSE Null
        scale == scaleCompensateScale(h, n)
        rot2 == Quat_setFromMat4(h.worldTransform[p])
        rot == Quat_mul(rot2, h.localRotation[n])
        tmatrix == IF h.scaleCompensation[p]
                   THEN Mat4_setTRS(Mat4_getTranslation(h.worldTransform[p]), rot2,
                                    Vec3_mul2(parentWorldScale, h.localScale[p]))
                   ELSE h.worldTransform[p]
        pos == Mat4_transformPoint(tmatrix, h.localPosition[n])
    IN IF h.scaleCompensation[p] /\ ~hasScale
       THEN Throw(h)
       ELSE [h EXCEPT !.worldTransform[n] = Mat4_setTRS(pos, rot, scale),
                      !.dirtyWorld[n] = FALSE]

\* Variant: the world flag is left set.
_sync_keepDirty(h, n) ==
    LET h0 == [h EXCEPT !.synced = Append(@, n)]
        h1 == getLocalTransform(h0, n)
    IN IF ~h1.dirtyWorld[n] THEN h1
       ELSE IF h1.parent[n] = Null
       THEN [h1 EXCEPT !.worldTransform[n] = h1.localTransform[n]]
       ELSE [h1 EXCEPT !.worldTransform[n] =
                           Mat4_mul2(h1.worldTransform[h1.parent[n]], h1.localTransform[n])]

_sync(h, n) ==
    LET h0 == [h EXCEPT !.synced = Append(@, n)]
        h1 == getLocalTransform(h0, n)
    IN IF ~h1.dirtyWorld[n] THEN h1
       ELSE IF h1.parent[n] = Null
       THEN [h1 EXCEPT !.worldTransform[n] = h1.localTransform[n],
                       !.dirtyWorld[n] = FALSE]
       ELSE IF h1.scaleCompensation[n]
       THEN SyncCompensated(h1, n)
       ELSE [h1 EXCEPT !.worldTransform[n] =
                           Mat4_mul2(h1.worldTransform[h1.parent[n]], h1.localTransform[n]),
                       !.dirtyWorld[n] = FALSE]

RECURSIVE getWorldTransform(_, _)
getWorldTransform(h, n) ==
    IF ~h.dirtyLocal[n] /\ ~h.dirtyWorld[n] THEN h
    ELSE LET h1 == IF h.parent[n] # Null THEN getWorldTransform(h, h.parent[n]) ELSE h
         IN IF h1.err THEN h1 ELSE _sync(h1, n)

\* Values read back after a resolve on heap h (h is the heap the getter returned).
getPosition(h, n) == Mat4_getTranslation(h.worldTransform[n])
getRotation(h, n) == Quat_setFromMat4(h.worldTransform[n])

RECURSIVE syncHierarchy(_, _)
RECURSIVE SyncChildren(_, _, _)

SyncChildren(h, n, i) ==
    IF h.err \/ i > Len(h.children[n]) THEN h
    ELSE SyncChildren(syncHierarchy(h, h.children[n][i]), n, i + 1)

syncHierarchy(h, n) ==
    IF ~h.enabled[n] THEN h
    ELSE LET h1 == IF h.dirtyLocal[n] \/ h.dirtyWorld[n] THEN _sync(h, n) ELSE h
         IN SyncChildren(h1, n, 1)

-----------------------------------------------------------------------------
\* Local setters

setLocalPosition(h, n, v) ==
    DirtifyIfClean([h EXCEPT !.localPosition[n] = v], n)

setLocalRotation(h, n, q) ==
    DirtifyIfClean([h EXCEPT !.localRotation[n] = q], n)

setLocalScale(h, n, s) ==
    DirtifyIfClean([h EXCEPT !.localScale[n] = s], n)

setLocalEulerAngles(h, n, e) ==
    DirtifyIfClean([h EXCEPT !.localRotation[n] = Quat_setFromEulerAngles(e)], n)

translateLocal(h, n, v) ==
    DirtifyIfClean([h EXCEPT !.localPosition[n] =
                       Vec3_add(@, Quat_transformVector(h.localRotation[n], v))], n)

rotateLocal(h, n, e) ==
    DirtifyIfClean([h EXCEPT !.localRotation[n] =
                       Quat_mul(@, Quat_setFromEulerAngles(e))], n)

-----------------------------------------------------------------------------
\* World setters

\* Variant: the parent's cached matrix is used without resolving it.
setPosition_cached(h, n, v) ==
    IF h.parent[n] = Null
    THEN DirtifyIfClean([h EXCEPT !.localPosition[n] = v], n)
    ELSE DirtifyIfClean(
             [h EXCEPT !.localPosition[n] =
                 Mat4_transformPoint(Mat4_invert(h.worldTransform[h.parent[n]]), v)], n)

setPosition(h, n, v) ==
    IF h.parent[n] = Null
    THEN DirtifyIfClean([h EXCEPT !.localPosition[n] = v], n)
    ELSE LET h1 == getWorldTransform(h, h.parent[n])
             inv == Mat4_invert(h1.worldTransform[h.parent[n]])
         IN IF h1.err THEN h1
            ELSE DirtifyIfClean(
                     [h1 EXCEPT !.localPosition[n] = Mat4_transformPoint(inv, v)], n)

setRotation(h, n, q) ==
    IF h.parent[n] = Null
    THEN DirtifyIfClean([h EXCEPT !.localRotation[n] = q], n)
    ELSE LET h1 == getWorldTransform(h, h.parent[n])
             invParentRot == Quat_invert(getRotation(h1, h.parent[n]))
         IN IF h1.err THEN h1
            ELSE DirtifyIfClean(
                     [h1 EXCEPT !.localRotation[n] = Quat_mul(invParentRot, q)], n)

setEulerAngles(h, n, e) ==
    LET h0 == [h EXCEPT !.localRotation[n] = Quat_setFromEulerAngles(e)]
    IN IF h.parent[n] = Null
       THEN DirtifyIfClean(h0, n)
       ELSE LET h1 == getWorldTransform(h0, h.parent[n])
                invParentRot == Quat_invert(getRotation(h1, h.parent[n]))
            IN IF h1.err THEN h1
               ELSE DirtifyIfClean(
                        [h1 EXCEPT !.localRotation[n] = Quat_mul(invParentRot, @)], n)

translate(h, n, v) ==
    LET h1 == getWorldTransform(h, n)
    IN IF h1.err THEN h1
       ELSE setPosition(h1, n, Vec3_add(v, getPosition(h1, n)))

rotate(h, n, e) ==
    LET quaternion == Quat_setFromEulerAngles(e)
    IN IF h.parent[n] = Null
       THEN DirtifyIfClean([h EXCEPT !.localRotation[n] = Quat_mul(quaternion, @)], n)
       ELSE LET h1 == getWorldTransform(h, n)
                rot == getRotation(h1, n)
                h2 == getWorldTransform(h1, h.parent[n])
                invParentRot == Quat_invert(getRotation(h2, h.parent[n]))
            IN IF h1.err THEN h1
               ELSE IF h2.err THEN h2
               ELSE DirtifyIfClean(
                        [h2 EXCEPT !.localRotation[n] =
                                       Quat_mul(Quat_mul(invParentRot, quaternion), rot)], n)

-----------------------------------------------------------------------------
\* Enabled state

enabledOf(h, n) == h.enabled[n] /\ h.enabledInHierarchy[n]

RECURSIVE _notifyHierarchyStateChanged(_, _, _)
RECURSIVE NotifyChildren(_, _, _, _)

\* Variant: locally disabled children are notified as well.
NotifyChildren_all(h, n, en, i) ==
    IF i > Len(h.children[n]) THEN h
    ELSE NotifyChildren(_notifyHierarchyStateChanged(h, h.children[n][i], en), n, en, i + 1)

NotifyChildren(h, n, en, i) ==
    IF i > Len(h.children[n]) THEN h
    ELSE LET c == h.children[n][i]
         IN NotifyChildren(IF h.enabled[c] THEN _notifyHierarchyStateChanged(h, c, en) ELSE h,
                           n, en, i + 1)

_notifyHierarchyStateChanged(h, n, en) ==
    NotifyChildren([h EXCEPT !.enabledInHierarchy[n] = en], n, en, 1)

setEnabled(h, n, en) ==
    IF h.enabled[n] = en THEN h
    ELSE LET h1 == [h EXCEPT !.enabled[n] = en]
             h2 == IF en
                   THEN _dirtifyLocal(IF h1.dirtyLocal[n] \/ h1.dirtyWorld[n]
                                      THEN _queueSync(h1, n) ELSE h1, n)
                   ELSE _cancelSync(h1, n)
         IN IF h2.parent[n] = Null \/ enabledOf(h2, h2.parent[n])
            THEN _notifyHierarchyStateChanged(h2, n, en)
            ELSE h2

-----------------------------------------------------------------------------
\* Hierarchy

\* Variant: the depth of the descendants is left as it was.
UpdateDepthChildren_skip(h, n, i) == h

RECURSIVE _updateGraphDepth(_, _)
RECURSIVE UpdateDepthChildren(_, _, _)

UpdateDepthChildren(h, n, i) ==
    IF i > Len(h.children[n]) THEN h
    ELSE UpdateDepthChildren(_updateGraphDepth(h, h.children[n][i]), n, i + 1)

_updateGraphDepth(h, n) ==
    LET d == IF h.parent[n] # Null THEN h.graphDepth[h.parent[n]] + 1 ELSE 0
        h1 == _cancelSync([h EXCEPT !.graphDepth[n] = d], n)
    IN UpdateDepthChildren(h1, n, 1)

RECURSIVE isDescendantOf(_, _, _)
\* n.isDescendantOf(a)
isDescendantOf(h, n, a) ==
    IF h.parent[n] = Null THEN FALSE
    ELSE IF h.parent[n] = a THEN TRUE
    ELSE isDescendantOf(h, h.parent[n], a)

\* Variant: the walk over the subtree of a node attached below itself comes
\* to an end.
_onInsertChild_returns(h, p, n) ==
    LET h1 == [h EXCEPT !.parent[n] = p]
        eih == h1.enabled[n] /\ enabledOf(h1, p)
        h2 == IF h1.enabledInHierarchy[n] # eih
              THEN _notifyHierarchyStateChanged(h1, n, eih)
              ELSE h1
        h3 == _updateGraphDepth(h2, n)
        h4 == IF h3.dirtyLocal[n] \/ h3.dirtyWorld[n] THEN _queueSync(h3, n) ELSE h3
    IN IF n = p \/ isDescendantOf(h, p, n) THEN h1
       ELSE _dirtifyLocal(h4, n)

\* When p is n or lies below n, n is now in its own subtree: the recursion of
\* node._updateGraphDepth() over this._children never ends and the call stack
\* overflows (RangeError), with node._parent already assigned.
_onInsertChild(h, p, n) ==
    LET h1 == [h EXCEPT !.parent[n] = p]
        eih == h1.enabled[n] /\ enabledOf(h1, p)
        h2 == IF h1.enabledInHierarchy[n] # eih
              THEN _notifyHierarchyStateChanged(h1, n, eih)
              ELSE h1
        h3 == _updateGraphDepth(h2, n)
        h4 == IF h3.dirtyLocal[n] \/ h3.dirtyWorld[n] THEN _queueSync(h3, n) ELSE h3
    IN IF n = p \/ isDescendantOf(h, p, n) THEN Throw(h1)
       ELSE _dirtifyLocal(h4, n)

\* Array.prototype.splice(index, 0, x): the start index is clamped to the array.
Splice(s, index, x) ==
    LET len == Len(s)
        at == IF index < 0 THEN (IF len + index < 0 THEN 0 ELSE len + index)
              ELSE IF index > len THEN len ELSE index
    IN SubSeq(s, 1, at) \o <<x>> \o SubSeq(s, at + 1, len)

RemoveAt(s, i) == SubSeq(s, 1, i - 1) \o SubSeq(s, i + 1, Len(s))

\* Variant: an already parented node is attached all the same.
addChild_unchecked(h, p, n) ==
    _onInsertChild([h EXCEPT !.children[p] = Append(@, n)], p, n)

addChild(h, p, n) ==
    IF h.parent[n] # Null THEN Throw(h)
    ELSE _onInsertChild([h EXCEPT !.children[p] = Append(@, n)], p, n)

insertChild(h, p, n, index) ==
    IF h.parent[n] # Null THEN Throw(h)
    ELSE _onInsertChild([h EXCEPT !.children[p] = Splice(@, index, n)], p, n)

\* Variant: the child keeps its parent pointer.
removeChild_keepParent(h, p, c) ==
    [h EXCEPT !.children[p] = SelectSeq(@, LAMBDA x : x # c)]

removeChild(h, p, c) ==
    IF \E i \in 1 .. Len(h.children[p]) : h.children[p][i] = c
    THEN LET i == CHOOSE j \in 1 .. Len(h.children[p]) :
                      /\ h.children[p][j] = c
                      /\ \A k \in 1 .. j - 1 : h.children[p][k] # c
         IN _updateGraphDepth([h EXCEPT !.children[p] = RemoveAt(@, i),
                                        !.parent[c] = Null], c)
    ELSE h

\* index = -1 stands for a call without index (undefined >= 0 is false).
reparent(h, n, p, index) ==
    LET h1 == IF h.parent[n] # Null THEN removeChild(h, h.parent[n], n) ELSE h
    IN IF p = Null THEN h1
       ELSE IF index >= 0 THEN insertChild(h1, p, n, index)
       ELSE addChild(h1, p, n)

addChildAndSaveTransform(h, p, n) ==
    LET h1 == getWorldTransform(h, n)
        wPos == getPosition(h1, n)
        wRot == getRotation(h1, n)
        h2 == IF h1.parent[n] # Null THEN removeChild(h1, h1.parent[n], n) ELSE h1
        h3 == setPosition(h2, n,
                  Mat4_transformPoint(Mat4_invert(h2.worldTransform[p]), wPos))
        h4 == getWorldTransform(h3, p)
        h5 == setRotation(h4, n, Quat_mul(Quat_invert(getRotation(h4, p)), wRot))
    IN IF h1.err THEN h1
       ELSE IF h3.err THEN h3
       ELSE IF h4.err THEN h4
       ELSE IF h5.err THEN h5
       ELSE _onInsertChild([h5 EXCEPT !.children[p] = Append(@, n)], p, n)

-----------------------------------------------------------------------------
\* clone / destroy

\* The state new pc.GraphNode() constructs.
IsFresh(h, n) ==
    /\ h.parent[n] = Null /\ h.children[n] = <<>> /\ h.graphDepth[n] = 0
    /\ h.localPosition[n] = 0 /\ h.localRotation[n] = 1 /\ h.localScale[n] = 1
    /\ h.localTransform[n] = Mat4_identity /\ h.worldTransform[n] = Mat4_identity
    /\ ~h.dirtyLocal[n] /\ ~h.dirtyWorld[n] /\ h.aabbVer[n] = 0
    /\ h.enabled[n] /\ ~h.enabledInHierarchy[n] /\ ~h.scaleCompensation[n]
    /\ \A e \in h.syncQueue : e[2] # n
    /\ \A m \in Nodes : h.parent[m] # n

\* Variant: the copy is queued whether dirty or not.
_cloneInternal_queued(h, n, c) ==
    _queueSync([h EXCEPT !.localPosition[c] = h.localPosition[n],
                         !.localRotation[c] = h.localRotation[n],
                         !.localScale[c] = h.localScale[n],
                         !.localTransform[c] = h.localTransform[n],
                         !.dirtyLocal[c] = h.dirtyLocal[n],
                         !.worldTransform[c] = h.worldTransform[n],
                         !.dirtyWorld[c] = h.dirtyWorld[n],
                         !.aabbVer[c] = h.aabbVer[n] + 1,
                         !.enabled[c] = h.enabled[n]], c)

\* c is the node the constructor call in clone() returned.
_cloneInternal(h, n, c) ==
    LET h1 == [h EXCEPT !.localPosition[c] = h.localPosition[n],
                        !.localRotation[c] = h.localRotation[n],
                        !.localScale[c] = h.localScale[n],
                        !.localTransform[c] = h.localTransform[n],
                        !.dirtyLocal[c] = h.dirtyLocal[n],
                        !.worldTransform[c] = h.worldTransform[n],
                        !.dirtyWorld[c] = h.dirtyWorld[n]]
        h2 == IF h1.dirtyLocal[c] \/ h1.dirtyWorld[c] THEN _queueSync(h1, c) ELSE h1
    IN [h2 EXCEPT !.aabbVer[c] = h.aabbVer[n] + 1,
                  !.enabled[c] = h.enabled[n],
                  !.scaleCompensation[c] = h.scaleCompensation[n],
                  !.enabledInHierarchy[c] = FALSE]

destroy(h, n) == _cancelSync(h, n)

-----------------------------------------------------------------------------
\* Skeleton.updateGraph: commits the written InterpolatedKeys to their target
\* nodes.  sk is the skeleton: graph (the bound root or Null) and keys (the
\* InterpolatedKeys in order).  Reading a field of a null target throws.

RECURSIVE UpdateGraphKeys_quiet(_, _, _)
\* The loop without the call of _dirtifyLocal.
UpdateGraphKeys_quiet(h, keys, i) ==
    IF i > Len(keys) THEN [h |-> h, keys |-> keys]
    ELSE IF ~keys[i].written THEN UpdateGraphKeys_quiet(h, keys, i + 1)
    ELSE IF keys[i].target = Null THEN [h |-> Throw(h), keys |-> keys]
    ELSE LET t == keys[i].target
             h1 == [h EXCEPT !.localPosition[t] = keys[i].pos,
                             !.localRotation[t] = keys[i].quat,
                             !.localScale[t] = keys[i].scale]
         IN UpdateGraphKeys_quiet(h1, [keys EXCEPT ![i].written = FALSE], i + 1)

RECURSIVE UpdateGraphKeys_keep(_, _, _)
\* The loop without the final "interpKey._written = false".
UpdateGraphKeys_keep(h, keys, i) ==
    IF i > Len(keys) THEN [h |-> h, keys |-> keys]
    ELSE IF ~keys[i].written THEN UpdateGraphKeys_keep(h, keys, i + 1)
    ELSE IF keys[i].target = Null THEN [h |-> Throw(h), keys |-> keys]
    ELSE LET t == keys[i].target
             h1 == [h EXCEPT !.localPosition[t] = keys[i].pos,
                             !.localRotation[t] = keys[i].quat,
                             !.localScale[t] = keys[i].scale]
         IN UpdateGraphKeys_keep(DirtifyIfClean(h1, t), keys, i + 1)

RECURSIVE UpdateGraphKeys(_, _, _)
UpdateGraphKeys(h, keys, i) ==
    IF i > Len(keys) THEN [h |-> h, keys |-> keys]
    ELSE IF ~keys[i].written THEN UpdateGraphKeys(h, keys, i + 1)
    ELSE IF keys[i].target = Null THEN [h |-> Throw(h), keys |-> keys]
    ELSE LET t == keys[i].target
             h1 == [h EXCEPT !.localPosition[t] = keys[i].pos,
                             !.localRotation[t] = keys[i].quat,
                             !.localScale[t] = keys[i].scale]
         IN UpdateGraphKeys(DirtifyIfClean(h1, t),
                            [keys EXCEPT ![i].written = FALSE], i + 1)

updateGraph(h, sk) ==
    IF sk.graph = Null THEN [h |-> h, keys |-> sk.keys]
    ELSE UpdateGraphKeys(h, sk.keys, 1)

-----------------------------------------------------------------------------
\* Draining the SyncQueue (the application's frame update): pending nodes are
\* resolved together with their subtrees, lowest graph depth first.

RECURSIVE SyncQueue_drain(_)
SyncQueue_drain(h) ==
    IF h.err \/ h.syncQueue = {} THEN h
    ELSE LET e == CHOOSE x \in h.syncQueue :
                      \A y \in h.syncQueue :
                          x[1] < y[1] \/ (x[1] = y[1] /\ x[2] <= y[2])
         IN SyncQueue_drain(syncHierarchy(_cancelSync(h, e[2]), e[2]))

-----------------------------------------------------------------------------
\* Tree helpers

\* Attaching n under p keeps the parent relation a forest.
Attachable(h, p, n) == n # p /\ ~isDescendantOf(h, p, n)

-----------------------------------------------------------------------------
\* Animation data and pc.Skeleton.  Times are counted in half seconds, so that
\* the half-way point of a one-second segment is a whole number; key values
\* are chosen so that every interpolation the model performs is exact.

\* Node n was constructed as new pc.GraphNode(name) with the name n; name 4 is
\* the name of no node.  GraphNode has no _name field: reading it yields
\* undefined.
Names == 1 .. 4
name(n) == n
UndefinedName == 0
NoCursor == 0 - 1

Key(time, position, rotation, scale) ==
    [time |-> time, position |-> position, rotation |-> rotation, scale |-> scale]
AnimNode(nm, keys) == [_name |-> nm, _keys |-> keys]

\* One channel [(0,0),(1s,6)] of duration 1s.
AnimTwoKeys ==
    [duration |-> 2, _nodes |-> <<AnimNode(1, <<Key(0, 0, 1, 1), Key(2, 6, 1, 1)>>)>>]
\* Duration 2s: a three-key channel, a single-key channel and a channel named
\* after no node of the skeleton.
AnimThreeChannels ==
    [duration |-> 4,
     _nodes |-> <<AnimNode(1, <<Key(0, 0, 1, 1), Key(2, 2, 2, 1), Key(4, 6, 4, 1)>>),
                  AnimNode(4, <<Key(0, 1, 1, 1), Key(4, 5, 1, 1)>>),
                  AnimNode(2, <<Key(0, 3, 2, 6)>>)>>]
\* An animation whose duration was never set: one key for node 3.
AnimStill ==
    [duration |-> 0, _nodes |-> <<AnimNode(3, <<Key(0, 5, 1, 1)>>)>>]
AnimIn == {AnimTwoKeys, AnimThreeChannels, AnimStill}
DeltaIn == {0 - 3, 0 - 1, 0, 1, 3, 5}
TimeIn == {0 - 1, 0, 1, 2, 4, 5}

\* a + (b - a) * alpha for alpha = num / den.
Vec3_lerp(a, b, num, den) == a + ((b - a) * num) \div den
\* Rotations are the powers 2^0, 2^1, 2^2; slerp interpolates the exponent.
QuatAngle(q) == IF q = 1 THEN 0 ELSE IF q = 2 THEN 1 ELSE 2
Quat_slerp(a, b, num, den) ==
    Quat_setFromEulerAngles(Vec3_lerp(QuatAngle(a), QuatAngle(b), num, den))

InterpolatedKey ==
    [_name |-> UndefinedName, written |-> FALSE, pos |-> 0, quat |-> 1, scale |-> 0,
     target |-> Null]

RECURSIVE addInterpolatedKeys(_, _, _)
RECURSIVE AddKeysOfChildren(_, _, _, _)

AddKeysOfChildren(h, sk, n, i) ==
    IF i > Len(h.children[n]) THEN sk
    ELSE AddKeysOfChildren(h, addInterpolatedKeys(h, sk, h.children[n][i]), n, i + 1)

\* interpKey._name = node._name reads a field GraphNode does not have.
addInterpolatedKeys(h, sk, n) ==
    LET keys == Append(sk.keys, [InterpolatedKey EXCEPT !._name = UndefinedName])
        sk1 == [sk EXCEPT !.keys = keys,
                          !._interpolatedKeyDict[name(n)] = Len(keys),
                          !._currKeyIndices[name(n)] = 0]
    IN AddKeysOfChildren(h, sk1, n, 1)

\* new pc.Skeleton(graph).  _animation is <<>> for null, <<a>> for a; keys are
\* the _interpolatedKeys (fields as updateGraph reads them).
\* _interpolatedKeyDict maps a name to the index of its key (0: undefined).
\* err: an exception is propagating.
Skeleton(h, graph) ==
    addInterpolatedKeys(h,
        [_animation |-> <<>>, _time |-> 0, looping |-> TRUE,
         keys |-> <<>>,
         _interpolatedKeyDict |-> [nm \in Names |-> 0],
         _currKeyIndices |-> [nm \in Names \cup {UndefinedName} |-> NoCursor],
         graph |-> Null, err |-> FALSE],
        graph)

RECURSIVE FindKeyPair_strict(_, _, _, _)
\* The loop with a pair that brackets t only when its first key lies before t.
FindKeyPair_strict(keys, c, offset, t) ==
    IF ~(c < Len(keys) - 1 /\ c >= 0) THEN NoCursor
    ELSE IF keys[c + 1].time < t /\ keys[c + 2].time >= t THEN c
    ELSE FindKeyPair_strict(keys, c + offset, offset, t)

RECURSIVE FindKeyPair(_, _, _, _)
\* The loop over currKeyIndex: the first index from c on, in steps of offset,
\* whose key pair brackets time t; NoCursor when the loop ends without one.
\* Indices count from 0 as in the code.
FindKeyPair(keys, c, offset, t) ==
    IF ~(c < Len(keys) - 1 /\ c >= 0) THEN NoCursor
    ELSE IF keys[c + 1].time <= t /\ keys[c + 2].time >= t THEN c
    ELSE FindKeyPair(keys, c + offset, offset, t)

\* Field-wise lerp/slerp of two keys at alpha = (t - k1.time) / (k2.time - k1.time).
Interpolate(ik, k1, k2, t) ==
    [ik EXCEPT !.pos = Vec3_lerp(k1.position, k2.position, t - k1.time, k2.time - k1.time),
               !.quat = Quat_slerp(k1.rotation, k2.rotation, t - k1.time, k2.time - k1.time),
               !.scale = Vec3_lerp(k1.scale, k2.scale, t - k1.time, k2.time - k1.time),
               !.written = TRUE]

CopyKey(ik, k) ==
    [ik EXCEPT !.pos = k.position, !.quat = k.rotation, !.scale = k.scale,
               !.written = TRUE]

\* The boundary handling without the cursor loops.
SetCursors_keep(sk, nodes, atEnd, i) == sk

RECURSIVE SetCursors_whenLooping(_, _, _, _)
\* The cursor loops run in looping mode only.
SetCursors_whenLooping(sk, nodes, atEnd, i) ==
    IF ~sk.looping \/ i > Len(nodes) THEN sk
    ELSE SetCursors_whenLooping([sk EXCEPT !._currKeyIndices[nodes[i]._name] =
                                               IF atEnd THEN 0 ELSE Len(nodes[i]._keys) - 2],
                                nodes, atEnd, i + 1)

RECURSIVE SetCursors(_, _, _, _)
\* The loops of the boundary handling: every channel's cursor is set to 0
\* (atEnd) or to keys.length - 2.
SetCursors(sk, nodes, atEnd, i) ==
    IF i > Len(nodes) THEN sk
    ELSE SetCursors([sk EXCEPT !._currKeyIndices[nodes[i]._name] =
                                   IF atEnd THEN 0 ELSE Len(nodes[i]._keys) - 2],
                    nodes, atEnd, i + 1)

RECURSIVE EvaluateNodes_stop(_, _, _, _)
\* The loop leaving at the first channel without an InterpolatedKey.
EvaluateNodes_stop(sk, nodes, offset, i) ==
    IF sk.err \/ i > Len(nodes) THEN sk
    ELSE LET nodeName == nodes[i]._name
             keys == nodes[i]._keys
             ix == sk._interpolatedKeyDict[nodeName]
             c == IF Len(keys) # 1
                  THEN FindKeyPair(keys, sk._currKeyIndices[nodeName], offset, sk._time)
                  ELSE NoCursor
             foundKey == c # NoCursor
             sk1 == IF foundKey
                    THEN [sk EXCEPT !.keys[ix] =
                                        Interpolate(@, keys[c + 1], keys[c + 2], sk._time),
                                    !._currKeyIndices[nodeName] = c]
                    ELSE sk
             sk2 == IF Len(keys) = 1 \/ (~foundKey /\ sk._time = 0 /\ sk.looping)
                    THEN IF Len(keys) = 0 THEN [sk1 EXCEPT !.err = TRUE]
                         ELSE [sk1 EXCEPT !.keys[ix] = CopyKey(@, keys[1])]
                    ELSE sk1
         IN IF ix = 0 THEN sk ELSE EvaluateNodes_stop(sk2, nodes, offset, i + 1)

RECURSIVE EvaluateNodes_fallback(_, _, _, _)
\* The loop with the first key copied whenever no pair was found.
EvaluateNodes_fallback(sk, nodes, offset, i) ==
    IF sk.err \/ i > Len(nodes) THEN sk
    ELSE LET nodeName == nodes[i]._name
             keys == nodes[i]._keys
             ix == sk._interpolatedKeyDict[nodeName]
             c == IF Len(keys) # 1
                  THEN FindKeyPair(keys, sk._currKeyIndices[nodeName], offset, sk._time)
                  ELSE NoCursor
             foundKey == c # NoCursor
             sk1 == IF foundKey
                    THEN [sk EXCEPT !.keys[ix] =
                                        Interpolate(@, keys[c + 1], keys[c + 2], sk._time),
                                    !._currKeyIndices[nodeName] = c]
                    ELSE sk
             sk2 == IF Len(keys) = 1 \/ ~foundKey
                    THEN IF Len(keys) = 0 THEN [sk1 EXCEPT !.err = TRUE]
                         ELSE [sk1 EXCEPT !.keys[ix] = CopyKey(@, keys[1])]
                    ELSE sk1
         IN EvaluateNodes_fallback(IF ix = 0 THEN sk ELSE sk2, nodes, offset, i + 1)

RECURSIVE EvaluateNodes(_, _, _, _)
\* The loop "for each animated node".  keys[0] of an empty key array is
\* undefined, and reading its position throws.
EvaluateNodes(sk, nodes, offset, i) ==
    IF sk.err \/ i > Len(nodes) THEN sk
    ELSE LET nodeName == nodes[i]._name
             keys == nodes[i]._keys
             ix == sk._interpolatedKeyDict[nodeName]
             c == IF Len(keys) # 1
                  THEN FindKeyPair(keys, sk._currKeyIndices[nodeName], offset, sk._time)
                  ELSE NoCursor
             foundKey == c # NoCursor
             sk1 == IF foundKey
                    THEN [sk EXCEPT !.keys[ix] =
                                        Interpolate(@, keys[c + 1], keys[c + 2], sk._time),
                                    !._currKeyIndices[nodeName] = c]
                    ELSE sk
             sk2 == IF Len(keys) = 1 \/ (~foundKey /\ sk._time = 0 /\ sk.looping)
                    THEN IF Len(keys) = 0 THEN [sk1 EXCEPT !.err = TRUE]
                         ELSE [sk1 EXCEPT !.keys[ix] = CopyKey(@, keys[1])]
                    ELSE sk1
         IN EvaluateNodes(IF ix = 0 THEN sk ELSE sk2, nodes, offset, i + 1)

\* The boundary handling with the overshoot carried over the loop point.
Advance_remainder(sk, delta) ==
    LET nodes == sk._animation[1]._nodes
        duration == sk._animation[1].duration
        t == sk._time + delta
        sk1 == IF t > duration
               THEN SetCursors([sk EXCEPT !._time = IF sk.looping THEN t - duration
                                                    ELSE duration],
                               nodes, TRUE, 1)
               ELSE IF t < 0
               THEN SetCursors([sk EXCEPT !._time = IF sk.looping THEN duration ELSE 0],
                               nodes, FALSE, 1)
               ELSE [sk EXCEPT !._time = t]
    IN EvaluateNodes(sk1, nodes, IF delta >= 0 THEN 1 ELSE 0 - 1, 1)

\* addTime from "this._time += delta" on: the boundary handling and the
\* evaluation of the channels.
Advance(sk, delta) ==
    LET nodes == sk._animation[1]._nodes
        duration == sk._animation[1].duration
        t == sk._time + delta
        sk1 == IF t > duration
               THEN SetCursors([sk EXCEPT !._time = IF sk.looping THEN 0 ELSE duration],
                               nodes, TRUE, 1)
               ELSE IF t < 0
               THEN SetCursors([sk EXCEPT !._time = IF sk.looping THEN duration ELSE 0],
                               nodes, FALSE, 1)
               ELSE [sk EXCEPT !._time = t]
    IN EvaluateNodes(sk1, nodes, IF delta >= 0 THEN 1 ELSE 0 - 1, 1)

\* addTime without the early return at the end of a non-looping animation.
addTime_pastEnd(sk, delta) ==
    IF sk._animation = <<>> THEN sk ELSE Advance(sk, delta)

addTime(sk, delta) ==
    IF sk._animation = <<>> THEN sk
    ELSE IF sk._time = sk._animation[1].duration /\ ~sk.looping THEN sk
    ELSE Advance(sk, delta)

RECURSIVE ResetCursors(_, _)
\* The loop of the currentTime setter: _currKeyIndices[node._name] = 0 for
\* every InterpolatedKey.
ResetCursors(sk, i) ==
    IF i > Len(sk.keys) THEN sk
    ELSE ResetCursors([sk EXCEPT !._currKeyIndices[sk.keys[i]._name] = 0], i + 1)

\* The setter without its addTime(0) and updateGraph().
setCurrentTime_raw(h, sk, value) ==
    [h |-> h, sk |-> ResetCursors([sk EXCEPT !._time = value], 1)]

\* set currentTime(value): set the time, reset the cursors, addTime(0),
\* updateGraph().  The result is the heap and the skeleton.
setCurrentTime(h, sk, value) ==
    LET sk1 == addTime(ResetCursors([sk EXCEPT !._time = value], 1), 0)
        r == updateGraph(h, sk1)
    IN IF sk1.err THEN [h |-> h, sk |-> sk1]
       ELSE [h |-> r.h, sk |-> [sk1 EXCEPT !.keys = r.keys]]

\* set animation(value): _animation = value; this.currentTime = 0.
setAnimation(h, sk, a) == setCurrentTime(h, [sk EXCEPT !._animation = <<a>>], 0)

setLooping(sk, looping) == [sk EXCEPT !.looping = looping]

RECURSIVE findByName(_, _, _)
RECURSIVE FindInChildren(_, _, _, _)
FindInChildren(h, n, nm, i) ==
    IF i > Len(h.children[n]) THEN Null
    ELSE LET found == findByName(h, h.children[n][i], nm)
         IN IF found # Null THEN found ELSE FindInChildren(h, n, nm, i + 1)

RECURSIVE findOne(_, _, _)
RECURSIVE FindOneInChildren(_, _, _, _)
\* The loop of the function branch: a truthy result of the recursive call
\* returns this._children[i].
FindOneInChildren(h, n, fn, i) ==
    IF i > Len(h.children[n]) THEN Null
    ELSE IF findOne(h, h.children[n][i], fn) # Null THEN h.children[n][i]
    ELSE FindOneInChildren(h, n, fn, i + 1)

\* findOne(fn), with fn given as the set of nodes it returns true for.
findOne(h, n, fn) ==
    IF n \in fn THEN n ELSE FindOneInChildren(h, n, fn, 1)

\* Depth-first search for the first node whose name is nm.
findByName(h, n, nm) ==
    IF name(n) = nm THEN n ELSE FindInChildren(h, n, nm, 1)

\* setGraph(graph): every InterpolatedKey's target becomes the node found
\* under its _name, or null when graph is null.
setGraph(h, sk, graph) ==
    [sk EXCEPT !.graph = graph,
               !.keys = [i \in DOMAIN sk.keys |->
                            [sk.keys[i] EXCEPT !.target =
                                IF graph = Null THEN Null
                                ELSE findByName(h, graph, sk.keys[i]._name)]]]

\* The blend factor alpha is num / AlphaDen.
AlphaDen == 2
AlphaIn == 0 .. AlphaDen

\* The loop body with the two sources exchanged in the interpolation.
BlendKey_swapped(dstKey, key1, key2, num) ==
    IF key1.written /\ key2.written
    THEN [dstKey EXCEPT !.quat = Quat_slerp(key2.quat, key1.quat, num, AlphaDen),
                        !.pos = Vec3_lerp(key2.pos, key1.pos, num, AlphaDen),
                        !.scale = Vec3_lerp(key2.scale, key1.scale, num, AlphaDen),
                        !.written = TRUE]
    ELSE IF key1.written
    THEN [dstKey EXCEPT !.quat = key1.quat, !.pos = key1.pos, !.scale = key1.scale,
                        !.written = TRUE]
    ELSE IF key2.written
    THEN [dstKey EXCEPT !.quat = key2.quat, !.pos = key2.pos, !.scale = key2.scale,
                        !.written = TRUE]
    ELSE dstKey

\* The loop body with a final branch that clears the destination's flag.
BlendKey_clear(dstKey, key1, key2, num) ==
    IF key1.written /\ key2.written
    THEN [dstKey EXCEPT !.quat = Quat_slerp(key1.quat, key2.quat, num, AlphaDen),
                        !.pos = Vec3_lerp(key1.pos, key2.pos, num, AlphaDen),
                        !.scale = Vec3_lerp(key1.scale, key2.scale, num, AlphaDen),
                        !.written = TRUE]
    ELSE IF key1.written
    THEN [dstKey EXCEPT !.quat = key1.quat, !.pos = key1.pos, !.scale = key1.scale,
                        !.written = TRUE]
    ELSE IF key2.written
    THEN [dstKey EXCEPT !.quat = key2.quat, !.pos = key2.pos, !.scale = key2.scale,
                        !.written = TRUE]
    ELSE [dstKey EXCEPT !.written = FALSE]

\* The body of the loop of blend for one destination key.
BlendKey(dstKey, key1, key2, num) ==
    IF key1.written /\ key2.written
    THEN [dstKey EXCEPT !.quat = Quat_slerp(key1.quat, key2.quat, num, AlphaDen),
                        !.pos = Vec3_lerp(key1.pos, key2.pos, num, AlphaDen),
                        !.scale = Vec3_lerp(key1.scale, key2.scale, num, AlphaDen),
                        !.written = TRUE]
    ELSE IF key1.written
    THEN [dstKey EXCEPT !.quat = key1.quat, !.pos = key1.pos, !.scale = key1.scale,
                        !.written = TRUE]
    ELSE IF key2.written
    THEN [dstKey EXCEPT !.quat = key2.quat, !.pos = key2.pos, !.scale = key2.scale,
                        !.written = TRUE]
    ELSE dstKey

RECURSIVE BlendKeys(_, _, _, _, _)
\* A source with fewer keys than the destination yields undefined, and
\* reading its _written throws.
BlendKeys(dst, skel1, skel2, num, i) ==
    IF i > Len(dst.keys) THEN dst
    ELSE IF i > Len(skel1.keys) \/ i > Len(skel2.keys) THEN [dst EXCEPT !.err = TRUE]
    ELSE BlendKeys([dst EXCEPT !.keys[i] = BlendKey(@, skel1.keys[i], skel2.keys[i], num)],
                   skel1, skel2, num, i + 1)

blend(dst, skel1, skel2, num) == BlendKeys(dst, skel1, skel2, num, 1)

-----------------------------------------------------------------------------
\* Initial states: the nodes as constructed, either still unattached or
\* attached into the chain 1 -> 2 -> 3 by addChild calls; the queue as those
\* calls leave it.

FreshHeap ==
    [parent |-> [n \in Nodes |-> Null], children |-> [n \in Nodes |-> <<>>],
     graphDepth |-> [n \in Nodes |-> 0], localPosition |-> [n \in Nodes |-> 0],
     localRotation |-> [n \in Nodes |-> 1], localScale |-> [n \in Nodes |-> 1],
     localTransform |-> [n \in Nodes |-> Mat4_identity],
     worldTransform |-> [n \in Nodes |-> Mat4_identity],
     dirtyLocal |-> [n \in Nodes |-> FALSE], dirtyWorld |-> [n \in Nodes |-> FALSE],
     aabbVer |-> [n \in Nodes |-> 0], enabled |-> [n \in Nodes |-> TRUE],
     enabledInHierarchy |-> [n \in Nodes |-> FALSE],
     scaleCompensation |-> [n \in Nodes |-> FALSE], syncQueue |-> {},
     err |-> FALSE, synced |-> <<>>, pushed |-> <<>>]

RECURSIVE BuildChain(_, _)
BuildChain(h, n) ==
    IF n + 1 \in Nodes THEN BuildChain(addChild(h, n, n + 1), n + 1) ELSE h

InitHeaps == {FreshHeap, BuildChain(FreshHeap, 1)}

\* The objects are those of heap h.
StateIs(h) ==
    /\ parent = h.parent
    /\ children = h.children
    /\ graphDepth = h.graphDepth
    /\ localPosition = h.localPosition
    /\ localRotation = h.localRotation
    /\ localScale = h.localScale
    /\ localTransform = h.localTransform
    /\ worldTransform = h.worldTransform
    /\ dirtyLocal = h.dirtyLocal
    /\ dirtyWorld = h.dirtyWorld
    /\ aabbVer = h.aabbVer
    /\ enabled = h.enabled
    /\ enabledInHierarchy = h.enabledInHierarchy
    /\ scaleCompensation = h.scaleCompensation
    /\ syncQueue = h.syncQueue

Init ==
    \E h \in InitHeaps :
        /\ StateIs(h)
        /\ skeleton = Skeleton(h, 1)
        /\ threw = ""
        /\ steps = 0

\* The objects of heap h, without the bookkeeping of the call that produced it.
Objects(h) == [h EXCEPT !.err = FALSE, !.synced = <<>>, !.pushed = <<>>]

\* The handler's resulting heap becomes the next state; threw names the call
\* when it ended with an exception ("" otherwise).  steps counts the calls
\* that changed something.
Update(h, sk, op) ==
    /\ threw' = IF h.err \/ sk.err THEN op ELSE ""
    /\ skeleton' = [sk EXCEPT !.err = FALSE]
    /\ steps' = IF Objects(h) = Heap /\ skeleton' = skeleton /\ threw' = threw
              THEN steps ELSE steps + 1
    /\ parent' = h.parent
    /\ children' = h.children
    /\ graphDepth' = h.graphDepth
    /\ localPosition' = h.localPosition
    /\ localRotation' = h.localRotation
    /\ localScale' = h.localScale
    /\ localTransform' = h.localTransform
    /\ worldTransform' = h.worldTransform
    /\ dirtyLocal' = h.dirtyLocal
    /\ dirtyWorld' = h.dirtyWorld
    /\ aabbVer' = h.aabbVer
    /\ enabled' = h.enabled
    /\ enabledInHierarchy' = h.enabledInHierarchy
    /\ scaleCompensation' = h.scaleCompensation
    /\ syncQueue' = h.syncQueue

Commit(h, op) == steps < MaxSteps /\ Update(h, skeleton, op)

\* The same for a call on the skeleton, which yields a heap and a skeleton.
CommitSkeleton(r, op) == steps < MaxAnimSteps /\ Update(r.h, r.sk, op)

-----------------------------------------------------------------------------
\* Actions: one per public operation

SetLocalPosition ==
    \E n \in Nodes, v \in PosIn : Commit(setLocalPosition(Heap, n, v), "setLocalPosition")
SetLocalRotation ==
    \E n \in Nodes, q \in RotIn : Commit(setLocalRotation(Heap, n, q), "setLocalRotation")
SetLocalScale ==
    \E n \in Nodes, s \in ScaleIn : Commit(setLocalScale(Heap, n, s), "setLocalScale")
SetLocalEulerAngles ==
    \E n \in Nodes, e \in EulerIn :
        Commit(setLocalEulerAngles(Heap, n, e), "setLocalEulerAngles")
TranslateLocal ==
    \E n \in Nodes, v \in PosIn : Commit(translateLocal(Heap, n, v), "translateLocal")
RotateLocal ==
    \E n \in Nodes, e \in EulerIn : Commit(rotateLocal(Heap, n, e), "rotateLocal")

SetPosition ==
    \E n \in Nodes, v \in PosIn : Commit(setPosition(Heap, n, v), "setPosition")
SetRotation ==
    \E n \in Nodes, q \in RotIn : Commit(setRotation(Heap, n, q), "setRotation")
SetEulerAngles ==
    \E n \in Nodes, e \in EulerIn : Commit(setEulerAngles(Heap, n, e), "setEulerAngles")
Translate ==
    \E n \in Nodes, v \in PosIn : Commit(translate(Heap, n, v), "translate")
Rotate ==
    \E n \in Nodes, e \in EulerIn : Commit(rotate(Heap, n, e), "rotate")

GetLocalTransform ==
    \E n \in Nodes : Commit(getLocalTransform(Heap, n), "getLocalTransform")
GetWorldTransform ==
    \E n \in Nodes : Commit(getWorldTransform(Heap, n), "getWorldTransform")
SyncHierarchy ==
    \E n \in Nodes : Commit(syncHierarchy(Heap, n), "syncHierarchy")

AddChild ==
    \E p \in Nodes, n \in Nodes :
        /\ Attachable(Heap, p, n)
        /\ Commit(addChild(Heap, p, n), "addChild")
InsertChild ==
    \E p \in Nodes, n \in Nodes, i \in IndexIn :
        /\ Attachable(Heap, p, n)
        /\ Commit(insertChild(Heap, p, n, i), "insertChild")
RemoveChild ==
    \E p \in Nodes, c \in Nodes : Commit(removeChild(Heap, p, c), "removeChild")
Reparent ==
    \E n \in Nodes, p \in Nodes \cup {Null}, i \in IndexIn \cup {-1} :
        /\ p # Null => Attachable(Heap, p, n)
        /\ Commit(reparent(Heap, n, p, i), "reparent")
AddChildAndSaveTransform ==
    \E p \in Nodes, n \in Nodes :
        /\ Attachable(Heap, p, n)
        /\ Commit(addChildAndSaveTransform(Heap, p, n), "addChildAndSaveTransform")

SetEnabled ==
    \E n \in Nodes, en \in BOOLEAN : Commit(setEnabled(Heap, n, en), "enabled")
Clone ==
    \E n \in Nodes, c \in Nodes :
        /\ c # n
        /\ IsFresh(Heap, c)
        /\ Commit(_cloneInternal(Heap, n, c), "clone")
Destroy ==
    \E n \in Nodes : Commit(destroy(Heap, n), "destroy")
Drain ==
    Commit(SyncQueue_drain(Heap), "drain")

\* The skeletons updateGraph is called on: unbound (without keys or with one
\* written key), or bound with two InterpolatedKeys of which the second is
\* written.
KeyIn ==
    [written : BOOLEAN, target : Nodes \cup {Null}, pos : PosIn, quat : RotIn, scale : ScaleIn]
SkeletonIn ==
    {[graph |-> Null, keys |-> <<>>]} \cup
    {[graph |-> Null, keys |-> <<k>>] : k \in {k \in KeyIn : k.written}} \cup
    {[graph |-> 1, keys |-> <<k1, k2>>] : k1 \in KeyIn, k2 \in {k \in KeyIn : k.written}}
UpdateGraph ==
    \E sk \in SkeletonIn : Commit(updateGraph(Heap, sk).h, "updateGraph")

Next ==
    \/ SetLocalPosition \/ SetLocalRotation \/ SetLocalScale
    \/ SetLocalEulerAngles \/ TranslateLocal \/ RotateLocal
    \/ SetPosition \/ SetRotation \/ SetEulerAngles \/ Translate \/ Rotate
    \/ GetLocalTransform \/ GetWorldTransform \/ SyncHierarchy
    \/ AddChild \/ InsertChild \/ RemoveChild \/ Reparent \/ AddChildAndSaveTransform
    \/ SetEnabled \/ Clone \/ Destroy \/ Drain \/ UpdateGraph

Spec == Init /\ [][Next]_vars

\* Local setters, hierarchy operations, enabled assignments, resolves and
\* syncHierarchy on any node.
NextDirty ==
    \/ SetLocalPosition \/ SetLocalRotation \/ SetLocalScale
    \/ AddChild \/ InsertChild \/ RemoveChild \/ Reparent \/ AddChildAndSaveTransform
    \/ SetEnabled \/ GetWorldTransform \/ SyncHierarchy

SpecDirty == Init /\ [][NextDirty]_vars

\* Local setters, attaching and detaching, and enabled assignments.
NextPending ==
    \/ SetLocalPosition \/ SetLocalRotation \/ SetLocalScale
    \/ AddChild \/ InsertChild \/ RemoveChild \/ Reparent
    \/ SetEnabled

SpecPending == Init /\ [][NextPending]_vars

RECURSIVE Up(_, _, _)
\* The k-th ancestor of n (Null above the root).
Up(h, n, k) == IF k = 0 \/ n = Null THEN n ELSE Up(h, h.parent[n], k - 1)

\* No node is its own ancestor.
Acyclic(h) == \A n \in Nodes : Up(h, n, Cardinality(Nodes)) = Null

\* The attaching calls with any node as argument, the node itself and the
\* nodes below it included.  A graph with a node below itself is not
\* followed further.
AddChildAny ==
    \E p \in Nodes, n \in Nodes :
        Acyclic(Heap) /\ Commit(addChild(Heap, p, n), "addChild")
InsertChildAny ==
    \E p \in Nodes, n \in Nodes, i \in IndexIn :
        Acyclic(Heap) /\ Commit(insertChild(Heap, p, n, i), "insertChild")
ReparentAny ==
    \E n \in Nodes, p \in Nodes \cup {Null}, i \in IndexIn \cup {-1} :
        Acyclic(Heap) /\ Commit(reparent(Heap, n, p, i), "reparent")
AddChildAndSaveTransformAny ==
    \E p \in Nodes, n \in Nodes :
        /\ Acyclic(Heap)
        /\ Commit(addChildAndSaveTransform(Heap, p, n), "addChildAndSaveTransform")
RemoveChildAny ==
    \E p \in Nodes, c \in Nodes :
        Acyclic(Heap) /\ Commit(removeChild(Heap, p, c), "removeChild")

NextAttach ==
    \/ AddChildAny \/ InsertChildAny \/ ReparentAny
    \/ AddChildAndSaveTransformAny \/ RemoveChildAny

SpecAttach == Init /\ [][NextAttach]_vars

\* Local-transform mutations, hierarchy operations and resolves only.
NextHierarchy ==
    \/ SetLocalPosition \/ SetLocalRotation \/ SetLocalScale
    \/ SetLocalEulerAngles \/ TranslateLocal \/ RotateLocal
    \/ AddChild \/ InsertChild \/ RemoveChild \/ Reparent
    \/ GetWorldTransform \/ Drain

SpecHierarchy == Init /\ [][NextHierarchy]_vars

\* The chain 1 -> 2 -> 3, as built or after a first drain, under local
\* mutations, resolves and drains only.
InitChain ==
    \E h \in {BuildChain(FreshHeap, 1), SyncQueue_drain(BuildChain(FreshHeap, 1))} :
        /\ StateIs(Objects(h))
        /\ skeleton = Skeleton(h, 1)
        /\ threw = ""
        /\ steps = 0

\* node.scaleCompensation = b: a plain field, nothing is dirtied.
SetScaleCompensation ==
    \E n \in Nodes, b \in BOOLEAN :
        Commit([Heap EXCEPT !.scaleCompensation[n] = b], "scaleCompensation")

\* The chain under scale-compensation assignments, local mutations and
\* resolves.
NextCompensation ==
    \/ SetScaleCompensation
    \/ SetLocalPosition \/ SetLocalRotation \/ SetLocalScale
    \/ GetWorldTransform

SpecCompensation == InitChain /\ [][NextCompensation]_vars

NextChain ==
    \/ SetLocalPosition \/ SetLocalRotation \/ SetLocalScale
    \/ SetLocalEulerAngles \/ TranslateLocal \/ RotateLocal
    \/ GetLocalTransform \/ GetWorldTransform \/ Drain

SpecChain == InitChain /\ [][NextChain]_vars

\* The chain with its root activated: the root's enabled flag switched off and
\* on again, which sets _enabledInHierarchy down the tree.
ActivatedChain == setEnabled(setEnabled(BuildChain(FreshHeap, 1), 1, FALSE), 1, TRUE)

\* Enabled assignments and hierarchy operations, from the scenes of Init and
\* the activated chain.
InitEnabled ==
    \E h \in InitHeaps \cup {ActivatedChain} :
        /\ StateIs(Objects(h))
        /\ skeleton = Skeleton(h, 1)
        /\ threw = ""
        /\ steps = 0

NextEnabled ==
    \/ SetEnabled \/ AddChild \/ InsertChild \/ RemoveChild \/ Reparent
    \/ AddChildAndSaveTransform \/ Clone

SpecEnabled == InitEnabled /\ [][NextEnabled]_vars

\* A skeleton constructed for the chain, under the calls of its playback
\* interface.
AddTime ==
    \E delta \in DeltaIn :
        CommitSkeleton([h |-> Heap, sk |-> addTime(skeleton, delta)], "addTime")
SetCurrentTime ==
    \E t \in TimeIn : CommitSkeleton(setCurrentTime(Heap, skeleton, t), "setCurrentTime")
SetAnimation ==
    \E a \in AnimIn : CommitSkeleton(setAnimation(Heap, skeleton, a), "setAnimation")
SetLooping ==
    \E b \in BOOLEAN : CommitSkeleton([h |-> Heap, sk |-> setLooping(skeleton, b)], "setLooping")

SetGraph ==
    \E g \in {Null, 1} :
        CommitSkeleton([h |-> Heap, sk |-> setGraph(Heap, skeleton, g)], "setGraph")

\* Two animations that drive all three nodes of the chain.
AnimWalk ==
    [duration |-> 2,
     _nodes |-> <<AnimNode(1, <<Key(0, 0, 1, 1), Key(2, 4, 1, 1)>>),
                  AnimNode(2, <<Key(0, 2, 1, 1), Key(2, 6, 1, 1)>>),
                  AnimNode(3, <<Key(0, 0, 1, 1), Key(2, 0, 4, 1)>>)>>]
AnimRun ==
    [duration |-> 2,
     _nodes |-> <<AnimNode(1, <<Key(0, 4, 4, 1), Key(2, 0, 4, 1)>>),
                  AnimNode(2, <<Key(0, 6, 1, 1), Key(2, 2, 1, 1)>>),
                  AnimNode(3, <<Key(0, 2, 4, 1), Key(2, 2, 1, 1)>>)>>]

\* The skeletons blend reads from: skeletons of the chain that have played an
\* animation (all keys written, or some), one that has played nothing, and
\* one constructed for a single node.
Played(a, delta) ==
    addTime(setAnimation(BuildChain(FreshHeap, 1), Skeleton(BuildChain(FreshHeap, 1), 1), a).sk,
            delta)
SourceIn ==
    {Played(AnimWalk, 0), Played(AnimRun, 0), Played(AnimThreeChannels, 2),
     Skeleton(BuildChain(FreshHeap, 1), 1), Skeleton(FreshHeap, 1)}

Blend ==
    \E skel1 \in SourceIn, skel2 \in SourceIn, alpha \in AlphaIn :
        CommitSkeleton([h |-> Heap, sk |-> blend(skeleton, skel1, skel2, alpha)], "blend")

InitSkeleton ==
    \E h \in {SyncQueue_drain(BuildChain(FreshHeap, 1))} :
        /\ StateIs(Objects(h))
        /\ skeleton = Skeleton(h, 1)
        /\ threw = ""
        /\ steps = 0

NextSkeleton == AddTime \/ SetCurrentTime \/ SetAnimation \/ SetLooping \/ SetGraph

SpecSkeleton == InitSkeleton /\ [][NextSkeleton]_vars

\* The chain under local setters, resolves of any node and subtree, and
\* skeletons committing poses to it.
NextPose ==
    \/ SetLocalPosition \/ SetLocalRotation \/ SetLocalScale
    \/ GetWorldTransform \/ SyncHierarchy \/ UpdateGraph

SpecPose == InitChain /\ [][NextPose]_vars

\* Duration 1s: a channel as new pc.Node() leaves it, without keys, next to a
\* single-key and a two-key channel.
AnimNoKeys ==
    [duration |-> 2,
     _nodes |-> <<AnimNode(1, <<>>),
                  AnimNode(2, <<Key(0, 3, 2, 6)>>),
                  AnimNode(3, <<Key(0, 0, 1, 1), Key(2, 6, 1, 1)>>)>>]

\* Animations whose channels have no, one, two and three keys.
SetAnimationOfKeys ==
    \E a \in {AnimNoKeys, AnimThreeChannels} :
        CommitSkeleton(setAnimation(Heap, skeleton, a), "setAnimation")

NextKeys == SetAnimationOfKeys \/ AddTime \/ SetLooping

SpecKeys == InitSkeleton /\ [][NextKeys]_vars

\* The skeleton as the destination of blends, between animation playback.
NextBlend == Blend \/ AddTime \/ SetAnimation

SpecBlend == InitSkeleton /\ [][NextBlend]_vars

-----------------------------------------------------------------------------
\* Notions the properties below are stated in

Pending(n) == \E e \in syncQueue : e[2] = n
Clean(h, n) == ~h.dirtyLocal[n] /\ ~h.dirtyWorld[n]
Descendants(h, n) == {d \in Nodes : isDescendantOf(h, d, n)}
Ancestors(h, n) == {a \in Nodes : isDescendantOf(h, n, a)}
LocalOf(h, n) == Mat4_setTRS(h.localPosition[n], h.localRotation[n], h.localScale[n])

RECURSIVE WorldOf(_, _)
\* The composition of the current local transforms from the root down to n.
WorldOf(h, n) ==
    IF h.parent[n] = Null THEN LocalOf(h, n)
    ELSE Mat4_mul2(WorldOf(h, h.parent[n]), LocalOf(h, n))

RECURSIVE WorldBelow(_, _, _)
\* The current local transforms from top down to d, composed onto the world
\* matrix the parent of top holds.
WorldBelow(h, top, d) ==
    IF d = top
    THEN IF h.parent[d] = Null THEN LocalOf(h, d)
         ELSE Mat4_mul2(h.worldTransform[h.parent[d]], LocalOf(h, d))
    ELSE Mat4_mul2(WorldBelow(h, top, h.parent[d]), LocalOf(h, d))

\* The heaps one call of a local setter on n can produce.
LocalSetterResults(h, n) ==
    {setLocalPosition(h, n, v) : v \in PosIn}
        \cup {setLocalRotation(h, n, q) : q \in RotIn}
        \cup {setLocalScale(h, n, sc) : sc \in ScaleIn}
        \cup {setLocalEulerAngles(h, n, e) : e \in EulerIn}
        \cup {translateLocal(h, n, v) : v \in PosIn}
        \cup {rotateLocal(h, n, e) : e \in EulerIn}

\* No clean node hangs below a node whose world matrix is outdated.
DirtyClosed(h) ==
    \A n \in Nodes :
        (h.parent[n] # Null /\ h.dirtyWorld[h.parent[n]]) => h.dirtyWorld[n]

-----------------------------------------------------------------------------
\* C1: in every reachable state, a node whose dirtyLocal flag is set has its
\* dirtyWorld flag set too.
C1_DirtyLocalImpliesDirtyWorld ==
    \A n \in Nodes : dirtyLocal[n] => dirtyWorld[n]

\* A setter has marked a resolved parent (both flags) and, through it, its
\* child (world flag only).
C1_Witness ==
    \E n \in Nodes, m \in Nodes :
        /\ parent[m] = n
        /\ dirtyLocal[n] /\ dirtyWorld[n]
        /\ ~dirtyLocal[m] /\ dirtyWorld[m]

\* C2: after local mutations and hierarchy operations (drained or not),
\* getWorldTransform on a node returns the composition of the current local
\* transforms from its current root down to it; for a parentless node, its
\* local transform.
C2_WorldIsComposition ==
    \A n \in Nodes :
        LET h1 == getWorldTransform(Heap, n)
        IN ~h1.err /\ h1.worldTransform[n] = WorldOf(Heap, n)

\* The body of C3: once a local setter changes N, the next getWorldTransform on
\* a proper descendant D returns the matrix built from N's new local transform.
SetterReachesDescendants(h) ==
    \A N \in Nodes : \A D \in Descendants(h, N) :
        \A h1 \in LocalSetterResults(h, N) :
            LocalOf(h1, N) # LocalOf(h, N) =>
                LET h2 == getWorldTransform(h1, D)
                IN ~h2.err /\ h2.worldTransform[D] = WorldBelow(h2, N, D)

\* C3 as stated: in any reachable state, once a local setter changes N, the
\* next getWorldTransform on a proper descendant D reflects N's new local
\* transform and is never the matrix cached before the change.
C3_Original == SetterReachesDescendants(Heap)

\* C3 amended: the same, in the reachable states where no clean node hangs
\* below a node with dirtyWorld set.
C3_Amended == DirtyClosed(Heap) => SetterReachesDescendants(Heap)

\* A setter has changed N while its descendant D held a resolved matrix: D is
\* marked, and its cached matrix is no longer the composition.
C3_Witness ==
    /\ DirtyClosed(Heap)
    /\ \E N \in Nodes : \E D \in Descendants(Heap, N) :
           /\ dirtyLocal[N] /\ localPosition[N] # 0
           /\ ~dirtyLocal[D] /\ dirtyWorld[D]
           /\ worldTransform[D] # WorldOf(Heap, D)
           /\ getWorldTransform(Heap, D).worldTransform[D] = WorldOf(Heap, D)

\* C4: a local setter called on N leaves the local position, rotation and
\* scale, both dirty flags, the cached world matrix and aabbVer of every node
\* that is neither N nor a descendant of N unchanged.
C4_SetterFrame ==
    \A N \in Nodes : \A h1 \in LocalSetterResults(Heap, N) :
        \A m \in Nodes \ ({N} \cup Descendants(Heap, N)) :
            /\ h1.localPosition[m] = localPosition[m]
            /\ h1.localRotation[m] = localRotation[m]
            /\ h1.localScale[m] = localScale[m]
            /\ h1.dirtyLocal[m] = dirtyLocal[m]
            /\ h1.dirtyWorld[m] = dirtyWorld[m]
            /\ h1.worldTransform[m] = worldTransform[m]
            /\ h1.aabbVer[m] = aabbVer[m]

\* A setter has marked a node that has a sibling under a parent that stayed
\* resolved.
C4_Witness ==
    \E N \in Nodes, m \in Nodes :
        /\ m # N /\ parent[N] # Null /\ parent[m] = parent[N]
        /\ dirtyLocal[N] /\ localPosition[N] # 0
        /\ Clean(Heap, parent[N])

\* C5 as stated: a node is pending in the SyncQueue only while its dirtyLocal
\* or dirtyWorld flag is set; once resolved it is no longer pending.
C5_Original ==
    \A n \in Nodes : Pending(n) => (dirtyLocal[n] \/ dirtyWorld[n])

\* C5 amended: a node becomes pending only in a call that leaves one of its
\* dirty flags set (resolving it does not take it out of the queue).
C5_Amended ==
    [][\A n \in Nodes :
           (~Pending(n) /\ (\E e \in syncQueue' : e[2] = n))
               => (dirtyLocal'[n] \/ dirtyWorld'[n])]_vars

\* A setter has queued one node while another, resolved since it was queued,
\* is still pending.
C5_Witness ==
    \E n \in Nodes, m \in Nodes :
        /\ Pending(n) /\ dirtyLocal[n] /\ localPosition[n] # 0
        /\ Pending(m) /\ Clean(Heap, m)

\* C6: addChild and insertChild called with a node that already has a parent
\* throw and change nothing.
C6_AttachParentedThrows ==
    \A p \in Nodes, n \in Nodes :
        parent[n] # Null =>
            /\ addChild(Heap, p, n) = Throw(Heap)
            /\ \A i \in IndexIn : insertChild(Heap, p, n, i) = Throw(Heap)

\* An addChild call has thrown on a parented node.
C6_Witness ==
    /\ threw = "addChild"
    /\ \E n \in Nodes : parent[n] # Null

\* C7: a node's parent is P exactly when the node occurs in P's child list,
\* and then it occurs there once; so a node is in at most one child list.
C7_ParentChildAgree ==
    \A n \in Nodes, p \in Nodes :
        LET occ == {i \in 1 .. Len(children[p]) : children[p][i] = n}
        IN /\ (parent[n] = p) <=> (occ # {})
           /\ Cardinality(occ) <= 1

\* Hierarchy calls have put both other nodes under one parent, the later one
\* in front.
C7_Witness ==
    \E p \in Nodes :
        /\ Len(children[p]) = 2
        /\ children[p][1] > children[p][2]
        /\ \A i \in 1 .. 2 : parent[children[p][i]] = p /\ children[children[p][i]] = <<>>

\* C8: P.addChildAndSaveTransform(N) leaves N's world position and world
\* rotation as they were, whatever the dirty state of P and its ancestors
\* (for invertible transforms of P and N).
C8_WorldPosePreserved ==
    \A p \in Nodes, n \in Nodes :
        (Attachable(Heap, p, n) /\ WorldOf(Heap, p).m # 0 /\ WorldOf(Heap, n).m # 0) =>
            LET h0 == getWorldTransform(Heap, n)
                h1 == addChildAndSaveTransform(Heap, p, n)
                h2 == getWorldTransform(h1, n)
            IN /\ ~h2.err
               /\ getPosition(h2, n) = getPosition(h0, n)
               /\ getRotation(h2, n) = getRotation(h0, n)

\* The body of C9: getPosition after setPosition(v) on n returns v.
SetPositionRoundTrip(h, n) ==
    \A v \in PosIn :
        LET h1 == setPosition(h, n, v)
            h2 == getWorldTransform(h1, n)
        IN ~h2.err /\ getPosition(h2, n) = v

\* C9 as stated: setPosition(v) followed by getPosition() returns v, for a
\* parentless node and for a parented one, whatever the parent's transform and
\* dirty state.
C9_Original == \A n \in Nodes : SetPositionRoundTrip(Heap, n)

\* C9 amended: the same, for a parentless node and for a node whose parent's
\* world matrix is invertible.
C9_Amended ==
    \A n \in Nodes :
        (parent[n] = Null
            \/ getWorldTransform(Heap, parent[n]).worldTransform[parent[n]].m # 0)
        => SetPositionRoundTrip(Heap, n)

\* setPosition has acted on a child of a parent whose world matrix is not the
\* identity: the local position is the preimage of the requested point.
C9_Witness ==
    \E n \in Nodes, v \in PosIn :
        /\ parent[n] # Null /\ Clean(Heap, parent[n])
        /\ worldTransform[parent[n]] # Mat4_identity
        /\ worldTransform[parent[n]].m # 0
        /\ dirtyLocal[n]
        /\ localPosition[n] # v
        /\ localPosition[n] = Mat4_transformPoint(Mat4_invert(worldTransform[parent[n]]), v)

\* The part of C10 that does not concern the ancestors: two getWorldTransform
\* calls in a row return the same matrix, the second runs no _sync, and after
\* the first the node has both flags cleared.
ResolveIsIdempotent(h, n) ==
    LET h1 == getWorldTransform(h, n)
        h2 == getWorldTransform(h1, n)
    IN /\ ~h1.err /\ ~h2.err
       /\ h2.worldTransform[n] = h1.worldTransform[n]
       /\ h2.synced = h1.synced
       /\ Clean(h1, n)

\* C10 as stated: two getWorldTransform calls in a row return the same matrix
\* and the second runs no _sync; after the first call the node and all its
\* ancestors have both dirty flags cleared.
C10_Original ==
    \A n \in Nodes :
        /\ ResolveIsIdempotent(Heap, n)
        /\ \A a \in Ancestors(Heap, n) : Clean(getWorldTransform(Heap, n), a)

\* C10 amended: two getWorldTransform calls in a row return the same matrix and
\* the second runs no _sync; after the first call the node has both dirty
\* flags cleared.
C10_Amended == \A n \in Nodes : ResolveIsIdempotent(Heap, n)

\* getWorldTransform has resolved a moved child below a resolved parent.
C10_Witness ==
    \E n \in Nodes :
        /\ parent[n] # Null /\ Clean(Heap, n) /\ Clean(Heap, parent[n])
        /\ localPosition[n] # 0
        /\ worldTransform[n] # Mat4_identity
        /\ worldTransform[n] = WorldOf(Heap, n)

\* C11: in the chain 1 -> 2 -> 3 with the local transform of each node changed
\* since its last resolve, a drain of the SyncQueue runs _sync on 1 before 2
\* and on 2 before 3, and leaves all three clean with world matrices equal to
\* the composition of the new local transforms.
C11_DrainInDepthOrder ==
    (\A n \in Nodes : dirtyLocal[n]) =>
        LET h1 == SyncQueue_drain(Heap)
        IN /\ ~h1.err
           /\ h1.synced = <<1, 2, 3>>
           /\ \A n \in Nodes : Clean(h1, n) /\ h1.worldTransform[n] = WorldOf(Heap, n)

\* Setters have moved all three nodes of the chain, the deepest first, and the
\* drain of this state resolves them top-down.
C11_Witness ==
    /\ \A n \in Nodes : dirtyLocal[n] /\ localPosition[n] # 0 /\ Pending(n)
    /\ worldTransform[3] # WorldOf(Heap, 3)
    /\ SyncQueue_drain(Heap).synced = <<1, 2, 3>>
    /\ SyncQueue_drain(Heap).worldTransform[3] = WorldOf(Heap, 3)

\* How often node n occurs in sequence q.
Count(q, n) == Cardinality({i \in 1 .. Len(q) : q[i] = n})

\* C12: local setter calls on a node with no resolve of the node in between
\* (getLocalTransform may be called in between) push the node to the SyncQueue
\* at most once, and not at all when its world matrix was already outdated;
\* the next getWorldTransform runs _sync on the node once and yields the matrix
\* of the last values set, and the one after it runs none.
C12_SettersCoalesce ==
    \A n \in Nodes : \A h1 \in LocalSetterResults(Heap, n) : \A g \in BOOLEAN :
        \A h3 \in LocalSetterResults(IF g THEN getLocalTransform(h1, n) ELSE h1, n) :
            LET h4 == getWorldTransform([h3 EXCEPT !.synced = <<>>], n)
                h5 == getWorldTransform(h4, n)
            IN /\ Count(h3.pushed, n) <= 1
               /\ dirtyWorld[n] => Count(h3.pushed, n) = 0
               /\ Count(h4.synced, n) = 1
               /\ h4.worldTransform[n] = WorldBelow(h4, n, n)
               /\ h5.synced = h4.synced

\* A node has been set, read with getLocalTransform and set again without a
\* resolve: it is pending, its local matrix is the one of the first values and
\* its world matrix is still the one from before.
C12_Witness ==
    \E n \in Nodes :
        /\ dirtyLocal[n] /\ dirtyWorld[n] /\ Pending(n)
        /\ localTransform[n] # Mat4_identity
        /\ localTransform[n] # LocalOf(Heap, n)
        /\ worldTransform[n] = Mat4_identity

\* The local enabled flags of n and of all its ancestors are set.
AllEnabledUp(h, n) == h.enabled[n] /\ \A a \in Ancestors(h, n) : h.enabled[a]

\* C13 as stated: in every reachable state, starting from freshly constructed
\* nodes, the effective enabled state of a node (the enabled getter) equals
\* the conjunction of its own and all its ancestors' local enabled flags.
C13_Original == \A n \in Nodes : enabledOf(Heap, n) = AllEnabledUp(Heap, n)

RECURSIVE RootOf(_, _)
RootOf(h, n) == IF h.parent[n] = Null THEN n ELSE RootOf(h, h.parent[n])

\* C13 amended: the effective enabled state of a node equals the conjunction
\* of its own and all its ancestors' local enabled flags and of the
\* _enabledInHierarchy flag of the root of its tree (false for a freshly
\* constructed node).
C13_Amended ==
    \A n \in Nodes :
        enabledOf(Heap, n) = (AllEnabledUp(Heap, n) /\ enabledInHierarchy[RootOf(Heap, n)])

\* Below an activated root, a grandchild is effectively disabled by its
\* parent's local flag alone, and the root's child is not effectively enabled
\* either.
C13_Witness ==
    \E n \in Nodes :
        /\ parent[n] # Null /\ parent[parent[n]] # Null
        /\ enabledOf(Heap, parent[parent[n]])
        /\ enabled[n] /\ ~enabled[parent[n]]
        /\ ~enabledOf(Heap, n)

\* C14: assigning enabled on a node changes no node's _enabledInHierarchy, no
\* dirty flag and no SyncQueue entry unless the value differs from the node's
\* local flag and the node has no parent or an effectively enabled parent.
C14_EnabledFrame ==
    \A n \in Nodes, en \in BOOLEAN :
        (en = enabled[n] \/ (parent[n] # Null /\ ~enabledOf(Heap, parent[n]))) =>
            LET h1 == setEnabled(Heap, n, en)
            IN /\ h1.enabledInHierarchy = enabledInHierarchy
               /\ h1.dirtyLocal = dirtyLocal
               /\ h1.dirtyWorld = dirtyWorld
               /\ h1.syncQueue = syncQueue

\* The fields of node n in heap h.
NodeState(h, n) ==
    <<h.parent[n], h.children[n], h.graphDepth[n], h.localPosition[n],
      h.localRotation[n], h.localScale[n], h.localTransform[n], h.worldTransform[n],
      h.dirtyLocal[n], h.dirtyWorld[n], h.aabbVer[n], h.enabled[n],
      h.enabledInHierarchy[n], h.scaleCompensation[n]>>

\* C15: after destroy() on a node, the node has no pending SyncQueue entry, its
\* parent pointer is null and it occurs in no child list; its children are
\* still attached to it and unchanged.
C15_DestroyDetaches ==
    \A n \in Nodes :
        LET h1 == destroy(Heap, n)
        IN /\ \A e \in h1.syncQueue : e[2] # n
           /\ h1.parent[n] = Null
           /\ \A p \in Nodes : Count(h1.children[p], n) = 0
           /\ h1.children[n] = children[n]
           /\ \A c \in Nodes : parent[c] = n => NodeState(h1, c) = NodeState(Heap, c)

-----------------------------------------------------------------------------
\* Playback.  The properties speak about the result of a call in every
\* reachable state of the skeleton.

Bound == skeleton._animation # <<>>
Duration == skeleton._animation[1].duration
Channels == skeleton._animation[1]._nodes
\* The channels that drive an InterpolatedKey of the skeleton.
Driven(sk) == {i \in DOMAIN Channels : sk._interpolatedKeyDict[Channels[i]._name] # 0}
KeyOf(sk, i) == sk.keys[sk._interpolatedKeyDict[Channels[i]._name]]
CursorOf(sk, i) == sk._currKeyIndices[Channels[i]._name]
Pose(ik) == <<ik.pos, ik.quat, ik.scale>>

\* The value of a channel at time t: its only key, or the interpolation in the
\* first segment that contains t.
PoseAt(keys, t) ==
    IF Len(keys) = 1 THEN Pose(CopyKey(InterpolatedKey, keys[1]))
    ELSE LET c == CHOOSE c \in 1 .. Len(keys) - 1 :
                      /\ keys[c].time <= t /\ t <= keys[c + 1].time
                      /\ \A d \in 1 .. c - 1 : ~(keys[d].time <= t /\ t <= keys[d + 1].time)
         IN Pose(Interpolate(InterpolatedKey, keys[c], keys[c + 1], t))

Overshoots(delta) == Bound /\ skeleton._time + delta > Duration
Undershoots(delta) == Bound /\ skeleton._time + delta < 0

\* C16 as stated: while looping, an addTime that carries the time past the
\* duration lands at old time + delta - duration, and every driven channel
\* holds the interpolation at that time.
C16_Original ==
    \A delta \in DeltaIn :
        Overshoots(delta) /\ skeleton.looping =>
            LET r == addTime(skeleton, delta)
            IN /\ r._time = skeleton._time + delta - Duration
               /\ \A i \in Driven(r) : Pose(KeyOf(r, i)) = PoseAt(Channels[i]._keys, r._time)

\* C16: while looping, an addTime that carries the time past the duration
\* lands at time 0, whatever the overshoot, and every driven channel is
\* written with its value at time 0.
C16_LoopWrapsToStart ==
    \A delta \in DeltaIn :
        Overshoots(delta) /\ skeleton.looping =>
            LET r == addTime(skeleton, delta)
            IN /\ r._time = 0
               /\ \A i \in Driven(r) :
                      /\ KeyOf(r, i).written
                      /\ Pose(KeyOf(r, i)) = PoseAt(Channels[i]._keys, 0)

\* The two-key animation half-way through its segment, about to be advanced
\* by one and a half seconds.
C16_Witness ==
    /\ Bound /\ skeleton.looping /\ skeleton._animation[1] = AnimTwoKeys
    /\ skeleton._time = 1 /\ Pose(KeyOf(skeleton, 1)) = <<3, 1, 1>>
    /\ addTime(skeleton, 3)._time = 0
    /\ Pose(KeyOf(addTime(skeleton, 3), 1)) = <<0, 1, 1>>

\* A search of keys for time t that starts at index s and proceeds in
\* direction o visits the indices of Visited (none when s is no index of a
\* pair); it stops at the first visited index whose pair of keys brackets t.
Visited(keys, s, o) ==
    {c \in 0 .. Len(keys) - 2 :
        s \in 0 .. Len(keys) - 2 /\ (IF o = 1 THEN c >= s ELSE c <= s)}
Hits(keys, s, o, t) ==
    {c \in Visited(keys, s, o) : keys[c + 1].time <= t /\ t <= keys[c + 2].time}
FirstHit(keys, s, o, t) ==
    CHOOSE c \in Hits(keys, s, o, t) :
        \A d \in Hits(keys, s, o, t) : IF o = 1 THEN c <= d ELSE c >= d

\* Channel i of result r looks as after a search from index s in direction o:
\* the cursor is the first hit and the pose is interpolated there, or the
\* cursor is s when there is no hit.
SearchedFrom(r, i, s, o) ==
    LET keys == Channels[i]._keys
    IN IF Hits(keys, s, o, r._time) = {} THEN CursorOf(r, i) = s
       ELSE LET c == FirstHit(keys, s, o, r._time)
            IN /\ CursorOf(r, i) = c
               /\ KeyOf(r, i).written
               /\ Pose(KeyOf(r, i)) =
                      Pose(Interpolate(InterpolatedKey, keys[c + 1], keys[c + 2], r._time))

\* C17: while looping, an addTime past the duration sets the time to 0 and
\* searches every driven channel from index 0; an addTime below 0 sets the
\* time to the duration and searches every driven channel from index
\* keys.length - 2.
C17_LoopResetsCursors ==
    \A delta \in DeltaIn :
        LET r == addTime(skeleton, delta)
            o == IF delta >= 0 THEN 1 ELSE 0 - 1
        IN /\ Overshoots(delta) /\ skeleton.looping =>
                  /\ r._time = 0
                  /\ \A i \in Driven(r) : SearchedFrom(r, i, 0, o)
           /\ Undershoots(delta) /\ skeleton.looping =>
                  /\ r._time = Duration
                  /\ \A i \in Driven(r) : SearchedFrom(r, i, Len(Channels[i]._keys) - 2, o)

\* The three-key channel in the middle with its cursor on the second segment:
\* an overshoot takes the cursor back to 0, an undershoot to the last segment.
C17_Witness ==
    /\ Bound /\ skeleton.looping /\ skeleton._animation[1] = AnimThreeChannels
    /\ skeleton._time = 2 /\ CursorOf(skeleton, 1) = 1
    /\ addTime(skeleton, 3)._time = 0 /\ CursorOf(addTime(skeleton, 3), 1) = 0
    /\ addTime(skeleton, 0 - 3)._time = 4 /\ CursorOf(addTime(skeleton, 0 - 3), 1) = 1

\* The boundary handling is reached: the call is not the one that returns
\* early at the end of a non-looping animation.
NotAtEnd == skeleton.looping \/ skeleton._time # Duration

\* C18 as stated: without looping, an addTime past the duration (below 0)
\* clamps the time to the duration (to 0) and searches every driven channel
\* from the cursor it had before the call.
C18_Original ==
    \A delta \in DeltaIn :
        LET r == addTime(skeleton, delta)
            o == IF delta >= 0 THEN 1 ELSE 0 - 1
        IN (Overshoots(delta) \/ Undershoots(delta)) /\ ~skeleton.looping /\ NotAtEnd =>
               /\ r._time = IF Overshoots(delta) THEN Duration ELSE 0
               /\ \A i \in Driven(r) : SearchedFrom(r, i, CursorOf(skeleton, i), o)

\* C18: without looping, an addTime past the duration (below 0) clamps the
\* time to the duration (to 0) and, as in looping mode, resets every channel's
\* cursor to 0 (to keys.length - 2): every driven channel is searched from the
\* reset cursor, and every channel without a hit is left with it.
C18_ClampResetsCursors ==
    \A delta \in DeltaIn :
        LET r == addTime(skeleton, delta)
            o == IF delta >= 0 THEN 1 ELSE 0 - 1
        IN /\ Overshoots(delta) /\ ~skeleton.looping /\ NotAtEnd =>
                  /\ r._time = Duration
                  /\ \A i \in Driven(r) : SearchedFrom(r, i, 0, o)
                  /\ \A i \in DOMAIN Channels \ Driven(r) : CursorOf(r, i) = 0
           /\ Undershoots(delta) /\ ~skeleton.looping /\ NotAtEnd =>
                  /\ r._time = 0
                  /\ \A i \in Driven(r) : SearchedFrom(r, i, Len(Channels[i]._keys) - 2, o)
                  /\ \A i \in DOMAIN Channels \ Driven(r) :
                         CursorOf(r, i) = Len(Channels[i]._keys) - 2

\* Without looping, in the middle of the three-key channel: an undershoot
\* clamps to 0 and moves the single-key channel's cursor from 0 to -1, an
\* overshoot clamps to the duration.
C18_Witness ==
    /\ Bound /\ ~skeleton.looping /\ skeleton._animation[1] = AnimThreeChannels
    /\ skeleton._time = 2 /\ CursorOf(skeleton, 1) = 1 /\ CursorOf(skeleton, 3) = 0
    /\ addTime(skeleton, 0 - 3)._time = 0
    /\ CursorOf(addTime(skeleton, 0 - 3), 1) = 0
    /\ CursorOf(addTime(skeleton, 0 - 3), 3) = 0 - 1
    /\ addTime(skeleton, 3)._time = 4

\* C19: without looping, an addTime that overshoots the end leaves the time at
\* the duration and every driven channel at its value at the duration; in a
\* non-looping skeleton whose time is the duration, every addTime(d) changes
\* nothing (time, cursors, poses, written flags).
C19_ClampAtEnd ==
    /\ \A delta \in DeltaIn :
           Overshoots(delta) /\ ~skeleton.looping /\ NotAtEnd =>
               LET r == addTime(skeleton, delta)
               IN /\ r._time = Duration
                  /\ \A i \in Driven(r) :
                         Pose(KeyOf(r, i)) = PoseAt(Channels[i]._keys, Duration)
                  /\ \A d \in DeltaIn : addTime(r, d) = r
    /\ Bound /\ ~skeleton.looping /\ skeleton._time = Duration =>
           \A d \in DeltaIn : addTime(skeleton, d) = skeleton

\* The two-key animation at its start, without looping, about to be advanced
\* far past its end.
C19_Witness ==
    /\ Bound /\ ~skeleton.looping /\ skeleton._animation[1] = AnimTwoKeys
    /\ skeleton._time = 0 /\ Pose(KeyOf(skeleton, 1)) = <<0, 1, 1>>
    /\ addTime(skeleton, 5)._time = 2
    /\ Pose(KeyOf(addTime(skeleton, 5), 1)) = <<6, 1, 1>>
    /\ addTime(addTime(skeleton, 5), 0 - 1) = addTime(skeleton, 5)

InRange(sk) == 0 <= sk._time /\ sk._time <= sk._animation[1].duration

\* C20: while an animation is bound, the time is within [0, duration] after
\* every addTime(delta) and every setCurrentTime(t), in either looping mode
\* (also when the call ends with an exception).
C20_TimeInRange ==
    Bound =>
        /\ InRange(skeleton)
        /\ \A delta \in DeltaIn : InRange(addTime(skeleton, delta))
        /\ \A t \in TimeIn : InRange(setCurrentTime(Heap, skeleton, t).sk)

\* Half-way through the two-key animation, without looping: times set or
\* advanced beyond either end come out at that end.
C20_Witness ==
    /\ Bound /\ ~skeleton.looping /\ skeleton._animation[1] = AnimTwoKeys
    /\ skeleton._time = 1
    /\ setCurrentTime(Heap, skeleton, 5).sk._time = 2
    /\ setCurrentTime(Heap, skeleton, 0 - 1).sk._time = 0
    /\ addTime(skeleton, 0 - 3)._time = 0
    /\ addTime(skeleton, 3)._time = 2

-----------------------------------------------------------------------------
\* Blending.  The sources have the destination's channel layout.

SameLayout(sk) == Len(sk.keys) = Len(skeleton.keys)
AllWritten(sk) == \A i \in DOMAIN sk.keys : sk.keys[i].written
SamePose(sk1, sk2) == \A i \in DOMAIN sk1.keys : Pose(sk1.keys[i]) = Pose(sk2.keys[i])

\* C21: with every channel written in both sources, blend(A, B, 0) leaves the
\* destination's pose equal to A's in every channel, and blend(A, B, 1) equal
\* to B's.
C21_BlendEndpoints ==
    \A skel1 \in SourceIn, skel2 \in SourceIn :
        SameLayout(skel1) /\ SameLayout(skel2) /\ AllWritten(skel1) /\ AllWritten(skel2) =>
            /\ SamePose(blend(skeleton, skel1, skel2, 0), skel1)
            /\ SamePose(blend(skeleton, skel1, skel2, AlphaDen), skel2)

\* A destination whose first channel holds a pose of its own, blended from two
\* fully written sources that differ from it and from each other.
C21_Witness ==
    /\ skeleton.keys[1].written /\ skeleton.keys[1].pos = 2
    /\ AllWritten(Played(AnimWalk, 0)) /\ AllWritten(Played(AnimRun, 0))
    /\ Pose(blend(skeleton, Played(AnimWalk, 0), Played(AnimRun, 0), 0).keys[1]) = <<0, 1, 1>>
    /\ Pose(blend(skeleton, Played(AnimWalk, 0), Played(AnimRun, 0), AlphaDen).keys[1])
           = <<4, 4, 1>>
    /\ Pose(blend(skeleton, Played(AnimWalk, 0), Played(AnimRun, 0), 1).keys[1]) = <<2, 2, 1>>

ExactlyOne(key1, key2) == key1.written # key2.written
TheOne(key1, key2) == IF key1.written THEN key1 ELSE key2

\* C22 as stated: after blend, a channel's written flag is true exactly when
\* one of the sources had written it; when exactly one had, the destination
\* holds that source's pose for every alpha.
C22_Original ==
    \A skel1 \in SourceIn, skel2 \in SourceIn, alpha \in AlphaIn :
        SameLayout(skel1) /\ SameLayout(skel2) =>
            LET r == blend(skeleton, skel1, skel2, alpha)
            IN \A i \in DOMAIN r.keys :
                   /\ r.keys[i].written <=> (skel1.keys[i].written \/ skel2.keys[i].written)
                   /\ ExactlyOne(skel1.keys[i], skel2.keys[i]) =>
                          Pose(r.keys[i]) = Pose(TheOne(skel1.keys[i], skel2.keys[i]))

\* C22: after blend, a channel's written flag is true exactly when one of the
\* sources had written it or the destination's flag was already true; a
\* channel neither source had written is left as it was, flag included; when
\* exactly one had, the destination holds that source's pose for every alpha.
C22_BlendWritten ==
    \A skel1 \in SourceIn, skel2 \in SourceIn, alpha \in AlphaIn :
        SameLayout(skel1) /\ SameLayout(skel2) =>
            LET r == blend(skeleton, skel1, skel2, alpha)
            IN \A i \in DOMAIN r.keys :
                   /\ r.keys[i].written <=>
                          \/ skel1.keys[i].written \/ skel2.keys[i].written
                          \/ skeleton.keys[i].written
                   /\ ~skel1.keys[i].written /\ ~skel2.keys[i].written =>
                          r.keys[i] = skeleton.keys[i]
                   /\ ExactlyOne(skel1.keys[i], skel2.keys[i]) =>
                          Pose(r.keys[i]) = Pose(TheOne(skel1.keys[i], skel2.keys[i]))

\* A destination with its third channel written (by an earlier blend), about
\* to be blended from a source that wrote the first two channels only and one
\* that wrote nothing.
C22_Witness ==
    /\ skeleton.keys[3].written /\ Pose(skeleton.keys[3]) = <<2, 4, 1>>
    /\ LET skel1 == Played(AnimThreeChannels, 2)
           r == blend(skeleton, skel1, Skeleton(BuildChain(FreshHeap, 1), 1), 1)
       IN /\ skel1.keys[1].written /\ ~skel1.keys[3].written
          /\ Pose(r.keys[1]) = Pose(skel1.keys[1])
          /\ r.keys[3].written /\ Pose(r.keys[3]) = <<2, 4, 1>>

-----------------------------------------------------------------------------
\* Committing poses to the graph.

\* Key i of sk is written, bound to a node, and the last such key for its node.
Commits(sk, i) ==
    /\ sk.keys[i].written /\ sk.keys[i].target # Null
    /\ \A j \in DOMAIN sk.keys :
           j > i => ~(sk.keys[j].written /\ sk.keys[j].target = sk.keys[i].target)

\* After updateGraph on heap h, the target of every committing key holds the
\* key's pose in its local position, rotation and scale, has both dirty flags
\* set, and resolves to a world matrix built from the pose.
PoseCommitted(h, sk) ==
    LET r == updateGraph(h, sk)
    IN ~r.h.err =>
           \A i \in DOMAIN sk.keys :
               Commits(sk, i) =>
                   LET T == sk.keys[i].target
                       h2 == getWorldTransform(r.h, T)
                   IN /\ r.h.localPosition[T] = sk.keys[i].pos
                      /\ r.h.localRotation[T] = sk.keys[i].quat
                      /\ r.h.localScale[T] = sk.keys[i].scale
                      /\ r.h.dirtyLocal[T] /\ r.h.dirtyWorld[T]
                      /\ ~h2.err /\ h2.worldTransform[T] = WorldBelow(h2, T, T)

\* After updateGraph on heap h, every descendant of the target of a committing
\* key resolves to a world matrix built from the pose.
PoseReachesDescendants(h, sk) ==
    LET r == updateGraph(h, sk)
    IN ~r.h.err =>
           \A i \in DOMAIN sk.keys :
               Commits(sk, i) =>
                   \A D \in Descendants(h, sk.keys[i].target) :
                       LET h2 == getWorldTransform(r.h, D)
                       IN ~h2.err /\ h2.worldTransform[D] = WorldBelow(h2, sk.keys[i].target, D)

\* C23 as stated: after updateGraph on a bound skeleton, the target T of every
\* written channel holds the pose, has dirtyLocal and dirtyWorld set, and the
\* next getWorldTransform on T or on any descendant of T reflects the pose.
C23_Original ==
    \A sk \in SkeletonIn :
        sk.graph # Null => PoseCommitted(Heap, sk) /\ PoseReachesDescendants(Heap, sk)

\* C23: the same for T itself; for the descendants of T, in the states where
\* no clean node hangs below a node with dirtyWorld set.
C23_PoseCommitted ==
    \A sk \in SkeletonIn :
        sk.graph # Null =>
            /\ PoseCommitted(Heap, sk)
            /\ DirtyClosed(Heap) => PoseReachesDescendants(Heap, sk)

\* updateGraph is about to commit a pose to a resolved node with a resolved
\* child: both get marked, and the child's next world matrix differs from the
\* cached one.
C23_Witness ==
    \E sk \in SkeletonIn : \E T \in Nodes : \E D \in Descendants(Heap, T) :
        /\ sk.graph # Null /\ Commits(sk, 2) /\ sk.keys[2].target = T
        /\ ~sk.keys[1].written
        /\ Clean(Heap, T) /\ Clean(Heap, D) /\ DirtyClosed(Heap)
        /\ localPosition[T] # sk.keys[2].pos
        /\ LET r == updateGraph(Heap, sk)
           IN /\ ~r.h.err /\ r.h.dirtyWorld[D]
              /\ getWorldTransform(r.h, D).worldTransform[D] # worldTransform[D]

\* After updateGraph has returned, no key of sk is written, and a second
\* updateGraph changes neither the graph nor the keys.
Consumed(h, sk) ==
    LET r == updateGraph(h, sk)
    IN ~r.h.err =>
           /\ \A i \in DOMAIN r.keys : ~r.keys[i].written
           /\ updateGraph(r.h, [sk EXCEPT !.keys = r.keys]) = r

\* C24 as stated: after updateGraph returns, no InterpolatedKey is written,
\* and a second updateGraph applies nothing.
C24_Original == \A sk \in SkeletonIn : Consumed(Heap, sk)

\* C24: the same for a skeleton that is bound to a graph; on a skeleton
\* without a graph updateGraph returns at once and leaves the keys, written
\* flags included, and the nodes as they are.
C24_WrittenConsumed ==
    \A sk \in SkeletonIn :
        /\ sk.graph # Null => Consumed(Heap, sk)
        /\ sk.graph = Null => updateGraph(Heap, sk) = [h |-> Heap, keys |-> sk.keys]

\* updateGraph is about to commit two written keys to two resolved nodes.
C24_Witness ==
    \E sk \in SkeletonIn :
        /\ sk.graph # Null /\ Commits(sk, 1) /\ Commits(sk, 2)
        /\ Clean(Heap, sk.keys[1].target) /\ Clean(Heap, sk.keys[2].target)
        /\ LET r == updateGraph(Heap, sk)
           IN /\ ~r.h.err /\ ~r.keys[1].written /\ ~r.keys[2].written
              /\ r.h.dirtyLocal[sk.keys[1].target] /\ r.h.dirtyLocal[sk.keys[2].target]

\* C25: when the skeleton is bound to a graph, a channel whose name matches no
\* node has no target, addTime still computes its pose, and updateGraph
\* completes without error.
C25_UnmatchedSkipped ==
    skeleton.graph # Null =>
        \A delta \in DeltaIn :
            LET sk == addTime(skeleton, delta)
            IN /\ \A i \in DOMAIN sk.keys :
                      findByName(Heap, skeleton.graph, sk.keys[i]._name) = Null
                          => sk.keys[i].target = Null
               /\ ~sk.err
               /\ ~updateGraph(Heap, sk).h.err

-----------------------------------------------------------------------------
\* Channels without an InterpolatedKey.

\* The skeleton playing its animation without the channels that drive no
\* InterpolatedKey.
DrivenOnly(sk) ==
    [sk EXCEPT !._animation[1]._nodes =
                   SelectSeq(@, LAMBDA c : sk._interpolatedKeyDict[c._name] # 0)]

\* C26: addTime skips a channel whose name has no InterpolatedKey without
\* error, and evaluates every other channel, before and after it, as if the
\* channel were not part of the animation: time, keys and the cursors of the
\* driven channels come out the same.
C26_UnknownChannelSkipped ==
    Bound =>
        \A delta \in DeltaIn :
            LET r == addTime(skeleton, delta)
                q == addTime(DrivenOnly(skeleton), delta)
            IN /\ ~r.err
               /\ r._time = q._time /\ r.keys = q.keys
               /\ \A i \in Driven(r) : CursorOf(r, i) = CursorOf(q, i)

\* The animation whose second channel is named after no node, about to be
\* advanced: the first and the third channel both get a new pose.
C26_Witness ==
    /\ Bound /\ skeleton._animation[1] = AnimThreeChannels
    /\ Driven(skeleton) = {1, 3} /\ skeleton._time = 0
    /\ LET r == addTime(skeleton, 3)
       IN /\ ~r.err /\ r._time = 3
          /\ Pose(KeyOf(r, 1)) = <<4, 2, 1>> /\ Pose(KeyOf(r, 1)) # Pose(KeyOf(skeleton, 1))
          /\ KeyOf(r, 3).written /\ Pose(KeyOf(r, 3)) = <<3, 2, 6>>

-----------------------------------------------------------------------------
\* Searching.

RECURSIVE PreOrder(_, _)
RECURSIVE PreOrderOfChildren(_, _, _)
\* The nodes of the subtree of n, depth first, a node before its children and
\* the children in list order.
PreOrderOfChildren(h, n, i) ==
    IF i > Len(h.children[n]) THEN <<>>
    ELSE PreOrder(h, h.children[n][i]) \o PreOrderOfChildren(h, n, i + 1)
PreOrder(h, n) == <<n>> \o PreOrderOfChildren(h, n, 1)

FirstIn(seq, fn) ==
    LET hits == SelectSeq(seq, LAMBDA x : x \in fn)
    IN IF hits = <<>> THEN Null ELSE hits[1]

\* C27: findOne(fn) returns the first node of the subtree, in depth-first
\* pre-order, for which fn returns true, or null when there is none.
C27_FindOneFirstMatch ==
    \A n \in Nodes : \A fn \in SUBSET Nodes :
        findOne(Heap, n, fn) = FirstIn(PreOrder(Heap, n), fn)

-----------------------------------------------------------------------------
\* The parent relation.

\* C28: after every sequence of addChild, insertChild, removeChild, reparent
\* and addChildAndSaveTransform calls that returned without error, no node is
\* its own ancestor.
C28_AcyclicAfterReturn == threw = "" => Acyclic(Heap)

\* A detached node is attached below its own descendant: the call throws.
C28_Witness ==
    /\ threw = "" /\ steps > 0
    /\ \E p \in Nodes, n \in Nodes :
           /\ parent[n] = Null /\ isDescendantOf(Heap, p, n)
           /\ addChild(Heap, p, n).err
           /\ ~Acyclic(addChild(Heap, p, n))

-----------------------------------------------------------------------------
\* Scale compensation.

-----------------------------------------------------------------------------
\* Closure of dirtyWorld under children.

\* The heaps one call of a hierarchy operation can produce.
HierarchyResults(h) ==
    {addChild(h, p, n) : <<p, n>> \in {x \in Nodes \X Nodes : Attachable(h, x[1], x[2])}}
        \cup {insertChild(h, x[1], x[2], i) :
                  x \in {y \in Nodes \X Nodes : Attachable(h, y[1], y[2])}, i \in IndexIn}
        \cup {removeChild(h, p, c) : p \in Nodes, c \in Nodes}
        \cup {reparent(h, x[2], x[1], i) :
                  x \in {y \in Nodes \X Nodes : Attachable(h, y[1], y[2])},
                  i \in IndexIn \cup {-1}}
        \cup {reparent(h, n, Null, -1) : n \in Nodes}
        \cup {addChildAndSaveTransform(h, x[1], x[2]) :
                  x \in {y \in Nodes \X Nodes : Attachable(h, y[1], y[2])}}

\* The heaps one call in scope can produce, syncHierarchy being called only
\* on nodes that have no ancestor with dirtyWorld set.
ScopeResults(h) ==
    UNION {LocalSetterResults(h, n) : n \in Nodes}
        \cup HierarchyResults(h)
        \cup {setEnabled(h, n, en) : n \in Nodes, en \in BOOLEAN}
        \cup {getWorldTransform(h, n) : n \in Nodes}
        \cup {syncHierarchy(h, n) :
                  n \in {m \in Nodes : \A a \in Ancestors(h, m) : ~h.dirtyWorld[a]}}

\* C30 as stated: in every state reached by local setters, hierarchy
\* operations, enabled assignments, getWorldTransform and syncHierarchy on
\* arbitrary nodes, every descendant of a node with dirtyWorld set has
\* dirtyWorld set.
C30_Original == DirtyClosed(Heap)

\* C30 amended: every call in scope made in a state where each descendant of
\* a dirtyWorld node has dirtyWorld set leaves such a state, as long as
\* syncHierarchy is called only on nodes none of whose ancestors has
\* dirtyWorld set.
C30_DirtyClosedKept == DirtyClosed(Heap) => \A h2 \in ScopeResults(Heap) : DirtyClosed(h2)

\* A setter on a resolved parent has marked its resolved subtree: the
\* descendants carry dirtyWorld without dirtyLocal.
C30_Witness ==
    /\ DirtyClosed(Heap) /\ steps > 0
    /\ \E n \in Nodes :
           /\ dirtyLocal[n] /\ dirtyWorld[n]
           /\ Descendants(Heap, n) # {}
           /\ \A d \in Descendants(Heap, n) : dirtyWorld[d] /\ ~dirtyLocal[d]

-----------------------------------------------------------------------------
\* The search for the bracketing pair.

\* The keys of a channel are in order and cover [0, duration].
Covers(keys, duration) ==
    /\ Len(keys) >= 2
    /\ keys[1].time = 0 /\ keys[Len(keys)].time = duration
    /\ \A c \in 1 .. Len(keys) - 1 : keys[c].time <= keys[c + 1].time

\* C31: for a channel with two or more ordered keys that cover [0, duration],
\* after any sequence of addTime calls, setCurrentTime(t) with
\* 0 <= t <= duration and looping toggles, every addTime call that reaches
\* the evaluation of the channels finds a bracketing pair and writes the
\* interpolated pose for the new time.
C31_SearchFindsBracket ==
    Bound /\ InRange(skeleton) =>
        \A delta \in DeltaIn :
            NotAtEnd =>
                LET r == addTime(skeleton, delta)
                IN \A i \in Driven(r) :
                       Covers(Channels[i]._keys, Duration) =>
                           /\ KeyOf(r, i).written
                           /\ Pose(KeyOf(r, i)) = PoseAt(Channels[i]._keys, r._time)

-----------------------------------------------------------------------------
\* Seeking.

\* Result r of a seek to time t holds, for every driven channel, cursor and
\* pose as after a search from index 0, and every node of the bound graph
\* that a channel names carries the channel's value at t.
SeeksTo(r, t) ==
    /\ ~r.h.err /\ ~r.sk.err
    /\ r.sk._time = t
    /\ \A i \in Driven(r.sk) :
           LET keys == Channels[i]._keys
               n == IF r.sk.graph = Null THEN Null
                    ELSE findByName(r.h, r.sk.graph, Channels[i]._name)
           IN /\ Len(keys) >= 2 => SearchedFrom(r.sk, i, 0, 1)
              /\ Pose(KeyOf(r.sk, i)) = PoseAt(keys, t)
              /\ n # Null =>
                     <<r.h.localPosition[n], r.h.localRotation[n], r.h.localScale[n]>>
                         = PoseAt(keys, t)

\* C32: setting the current time to any t in [0, duration] resets every
\* cursor to 0, evaluates every channel at t and commits it to the bound
\* nodes, in both looping modes, t = 0 and t = duration included; the
\* animation setter does so for t = 0.
C32_SeekEvaluatesAndCommits ==
    /\ Bound => \A t \in 0 .. Duration : SeeksTo(setCurrentTime(Heap, skeleton, t), t)
    /\ \A a \in AnimIn :
           LET r == setAnimation(Heap, skeleton, a)
           IN /\ ~r.h.err /\ ~r.sk.err /\ r.sk._time = 0
              /\ \A nm \in Names \cup {UndefinedName} :
                     r.sk._currKeyIndices[nm] \in {0, NoCursor}

-----------------------------------------------------------------------------
\* What the search stores.

\* The index the search of channel i starts from in a call addTime(delta):
\* the boundary handling has set it to 0 or keys.length - 2 when the time left
\* [0, duration], otherwise it is the cursor the previous call left.
StartCursor(i, delta) ==
    IF Overshoots(delta) THEN 0
    ELSE IF Undershoots(delta) THEN Len(Channels[i]._keys) - 2
    ELSE CursorOf(skeleton, i)

\* Channel i of result r holds cursor c and the interpolation of keys[c] and
\* keys[c + 1] at the time of r, and the pair brackets that time.
StoresPair(r, i, c) ==
    LET keys == Channels[i]._keys
        k1 == keys[c + 1]
        k2 == keys[c + 2]
    IN /\ CursorOf(r, i) = c
       /\ k1.time <= r._time /\ r._time <= k2.time
       /\ KeyOf(r, i).written
       /\ KeyOf(r, i).pos =
              Vec3_lerp(k1.position, k2.position, r._time - k1.time, k2.time - k1.time)
       /\ KeyOf(r, i).quat =
              Quat_slerp(k1.rotation, k2.rotation, r._time - k1.time, k2.time - k1.time)
       /\ KeyOf(r, i).scale =
              Vec3_lerp(k1.scale, k2.scale, r._time - k1.time, k2.time - k1.time)

\* Channel i has its only key's value.
HoldsOnlyKey(r, i) ==
    /\ KeyOf(r, i).written
    /\ Pose(KeyOf(r, i)) = Pose(CopyKey(InterpolatedKey, Channels[i]._keys[1]))

\* C33 as stated: when addTime writes a multi-key channel by interpolation,
\* the stored cursor is the first bracketing index met when scanning from the
\* cursor remembered before the call in the direction of delta, and the pose
\* is the interpolation there; a single-key channel always holds its key's
\* value with written set.
C33_Original ==
    Bound =>
        \A delta \in DeltaIn :
            LET r == addTime(skeleton, delta)
                o == IF delta >= 0 THEN 1 ELSE 0 - 1
            IN \A i \in Driven(r) :
                   LET keys == Channels[i]._keys
                   IN /\ (/\ NotAtEnd /\ Len(keys) >= 2
                          /\ Hits(keys, StartCursor(i, delta), o, r._time) # {}) =>
                             /\ Hits(keys, CursorOf(skeleton, i), o, r._time) # {}
                             /\ StoresPair(r, i,
                                    FirstHit(keys, CursorOf(skeleton, i), o, r._time))
                      /\ Len(keys) = 1 => HoldsOnlyKey(r, i)

\* C33 amended: in every addTime call that reaches the evaluation of the
\* channels, a multi-key channel written by interpolation stores the first
\* bracketing index met when scanning, in the direction of delta, from the
\* cursor as the boundary handling left it (0 after an overshoot,
\* keys.length - 2 after an undershoot, the remembered cursor otherwise), with
\* the interpolation there; a single-key channel gets its key's value and
\* written = true.
C33_StoresFirstBracket ==
    Bound =>
        \A delta \in DeltaIn :
            NotAtEnd =>
                LET r == addTime(skeleton, delta)
                    o == IF delta >= 0 THEN 1 ELSE 0 - 1
                IN \A i \in Driven(r) :
                       LET keys == Channels[i]._keys
                           s == StartCursor(i, delta)
                       IN /\ (Len(keys) >= 2 /\ Hits(keys, s, o, r._time) # {}) =>
                                 StoresPair(r, i, FirstHit(keys, s, o, r._time))
                          /\ Len(keys) = 1 => HoldsOnlyKey(r, i)

\* The three-key channel with its cursor on the second segment and a
\* single-key channel: a step back inside the range is found by the backward
\* scan, an overshoot while looping is found from index 0.
C33_Witness ==
    /\ Bound /\ skeleton.looping /\ skeleton._animation[1] = AnimThreeChannels
    /\ skeleton._time = 3 /\ CursorOf(skeleton, 1) = 1
    /\ CursorOf(addTime(skeleton, 0 - 3), 1) = 0
    /\ addTime(skeleton, 0 - 3)._time = 0
    /\ CursorOf(addTime(skeleton, 3), 1) = 0
    /\ HoldsOnlyKey(addTime(skeleton, 3), 3)

-----------------------------------------------------------------------------
\* The search without a result.

\* The search of multi-key channel i in the call addTime(delta) with result r
\* ends without a pair.
NoPair(r, i, delta) ==
    /\ Len(Channels[i]._keys) >= 2
    /\ Hits(Channels[i]._keys, StartCursor(i, delta),
            IF delta >= 0 THEN 1 ELSE 0 - 1, r._time) = {}

HoldsFirstKey(r, i) ==
    /\ KeyOf(r, i).written
    /\ Pose(KeyOf(r, i)) = Pose(CopyKey(InterpolatedKey, Channels[i]._keys[1]))

\* C34 as stated: whenever addTime finds no bracketing pair for a multi-key
\* channel, the channel's pose is set to keys[0] and written to true.
C34_Original ==
    Bound =>
        \A delta \in DeltaIn :
            NotAtEnd =>
                LET r == addTime(skeleton, delta)
                IN \A i \in Driven(r) : NoPair(r, i, delta) => HoldsFirstKey(r, i)

\* C34 amended: when addTime finds no bracketing pair for a multi-key channel,
\* the channel is set to keys[0] with written = true only if the new time is
\* 0 and the skeleton is looping; otherwise its pose and written flag stay as
\* they were.
C34_FallbackAtLoopStart ==
    Bound =>
        \A delta \in DeltaIn :
            NotAtEnd =>
                LET r == addTime(skeleton, delta)
                IN \A i \in Driven(r) :
                       NoPair(r, i, delta) =>
                           IF r._time = 0 /\ r.looping THEN HoldsFirstKey(r, i)
                           ELSE KeyOf(r, i) = KeyOf(skeleton, i)

\* The three-key channel with a cursor left on the second segment by a seek:
\* at time 0 while looping the forward search finds nothing and the first key
\* is copied; at time 1 the pose of time 0 stays.
C34_Witness ==
    /\ Bound /\ skeleton.looping /\ skeleton._animation[1] = AnimThreeChannels
    /\ skeleton._time = 0 /\ CursorOf(skeleton, 1) = 1
    /\ NoPair(addTime(skeleton, 0), 1, 0)
    /\ HoldsFirstKey(addTime(skeleton, 0), 1)
    /\ NoPair(addTime(skeleton, 1), 1, 1)
    /\ KeyOf(addTime(skeleton, 1), 1) = KeyOf(skeleton, 1)

-----------------------------------------------------------------------------
\* The enabled getter along the parent link.

\* C35: in every reachable state, the effective enabled state (enabled
\* getter) of every node that has a parent equals its own local enabled flag
\* AND its parent's effective enabled state, across addChild, insertChild,
\* removeChild, reparent and enabled assignments in any order.
C35_EnabledFollowsParent ==
    \A n \in Nodes :
        parent[n] # Null =>
            enabledOf(Heap, n) = (enabled[n] /\ enabledOf(Heap, parent[n]))

\* A notification has stopped at a locally disabled node below an effectively
\* enabled parent: the node's enabled child still carries the cleared
\* hierarchy flag.
C35_Witness ==
    /\ steps > 0
    /\ \E n \in Nodes, c \in Nodes :
           /\ parent[n] # Null /\ parent[c] = n
           /\ enabledOf(Heap, parent[n]) /\ ~enabled[n]
           /\ enabled[c] /\ ~enabledInHierarchy[c]

-----------------------------------------------------------------------------
\* Graph depth.

\* Every node's graph depth is its distance from the root of its tree, and
\* every SyncQueue entry carries the depth of its node.
DepthIsDistance(h) ==
    /\ \A n \in Nodes : h.graphDepth[n] = Cardinality(Ancestors(h, n))
    /\ \A e \in h.syncQueue : e[1] = h.graphDepth[e[2]]

-----------------------------------------------------------------------------
\* Pending resolves.

\* Node n or one of its ancestors has an entry in the SyncQueue of heap h.
Covered(h, n) == \E e \in h.syncQueue : e[2] = n \/ e[2] \in Ancestors(h, n)

\* Every node with an outdated world matrix that is enabled all the way up is
\* covered by a pending entry.
DirtyIsCovered(h) ==
    \A n \in Nodes : h.dirtyWorld[n] /\ AllEnabledUp(h, n) => Covered(h, n)

\* C37: in every state reachable by local setters, addChild, insertChild,
\* removeChild, reparent and enabled assignments, every node with dirtyWorld
\* set whose own and ancestors' local enabled flags are all true has itself
\* or one of its ancestors pending in the SyncQueue.
C37_Original == DirtyIsCovered(Heap)

\* The heaps one call of a local setter, of an attaching operation or of an
\* enabled assignment can produce.
AttachResults(h) ==
    UNION {LocalSetterResults(h, n) : n \in Nodes}
        \cup {addChild(h, x[1], x[2]) :
                  x \in {y \in Nodes \X Nodes : Attachable(h, y[1], y[2])}}
        \cup {insertChild(h, x[1], x[2], i) :
                  x \in {y \in Nodes \X Nodes : Attachable(h, y[1], y[2])}, i \in IndexIn}
        \cup {reparent(h, x[2], x[1], i) :
                  x \in {y \in Nodes \X Nodes : Attachable(h, y[1], y[2])},
                  i \in IndexIn \cup {-1}}
        \cup {setEnabled(h, n, en) : n \in Nodes, en \in BOOLEAN}

\* C37 amended: local setters, addChild, insertChild, reparent below a new
\* parent and enabled assignments keep every enabled-all-the-way-up dirtyWorld
\* node covered by a pending entry; removeChild and reparent(null) erase the
\* entries of the detached subtree and push nothing.
C37_CoveredKept ==
    DirtyIsCovered(Heap) =>
        /\ \A h2 \in AttachResults(Heap) : DirtyIsCovered(h2)
        /\ \A p \in Nodes, c \in Nodes :
               LET h2 == removeChild(Heap, p, c)
               IN parent[c] = p =>
                      \A e \in h2.syncQueue : e[2] # c /\ e[2] \notin Descendants(Heap, c)

\* A dirty node is pending below its parent, where removeChild would erase
\* its entry, and another dirty node is covered by an ancestor's entry only.
C37_Witness ==
    /\ steps > 0 /\ DirtyIsCovered(Heap)
    /\ \E c \in Nodes : parent[c] # Null /\ dirtyWorld[c] /\ Pending(c)
    /\ \E n \in Nodes :
           /\ dirtyWorld[n] /\ AllEnabledUp(Heap, n)
           /\ ~Pending(n) /\ Covered(Heap, n)

-----------------------------------------------------------------------------
\* The version counter.

\* A read of a resolved node returns the cached matrix as it is.
ReadsCache(h, n) ==
    Clean(h, n) => getWorldTransform(h, n).worldTransform[n] = h.worldTransform[n]

\* C38: a node's aabb version never decreases, and the matrix
\* getWorldTransform returns for a node does not differ between two reads
\* unless the version was incremented in between: from a read on, the node
\* stays resolved with the matrix the read returned for as long as its
\* version stays the same, and a read of a resolved node returns that matrix.
C38_VersionGuardsWorld ==
    [][\A n \in Nodes :
           /\ aabbVer'[n] >= aabbVer[n]
           /\ ReadsCache(Heap, n)
           /\ (Clean(Heap, n) /\ aabbVer'[n] = aabbVer[n]) =>
                  (Clean(Heap', n) /\ worldTransform'[n] = worldTransform[n])]_vars

\* A node has been read, changed and read again: its version was incremented
\* in between and the matrix of the second read is not the one of the first.
C38_Witness ==
    \E n \in Nodes :
        /\ Clean(Heap, n) /\ aabbVer[n] >= 2
        /\ worldTransform[n] # Mat4_identity
        /\ worldTransform[n] = WorldOf(Heap, n)

-----------------------------------------------------------------------------
\* Key array accesses.

\* C39: addTime never reads a key outside a channel's key array: for channels
\* with no, one or more keys, either sign of delta and either looping mode the
\* call completes instead of failing.
C39_AddTimeCompletes ==
    Bound => \A delta \in DeltaIn : ~addTime(skeleton, delta).err

-----------------------------------------------------------------------------
\* The scale of a compensated node.

\* The magnitude of a scale value.
Magnitude(sc) == IF sc = 0 THEN 0 ELSE 1

\* The heap in which the outdated node n of heap h is resolved: its ancestors
\* are resolved first.
ResolvedAbove(h, n) == getWorldTransform(h, h.parent[n])

\* Resolving the outdated compensated node n in heap h, when it completes,
\* composes the world matrix of n from the world scale of node a (from no
\* scale when a is Null) times the local scale of n; below a regular parent
\* matrix the world matrix of n has that scale.
ScaleTakenFrom(h, n, a) ==
    LET h1 == ResolvedAbove(h, n)
        r == getWorldTransform(h, n)
        expected == IF a = Null THEN h.localScale[n]
                    ELSE Vec3_mul2(Mat4_getScale(h1.worldTransform[a]), h.localScale[n])
    IN ~r.err =>
           /\ scaleCompensateScale(h1, n) = expected
           /\ Mat4_getScale(h1.worldTransform[h.parent[n]]) = 1 =>
                  Mat4_getScale(r.worldTransform[n]) = Magnitude(expected)

\* The compensated nodes with a parent whose world matrix is outdated.
Compensated(h) ==
    {n \in Nodes : h.scaleCompensation[n] /\ h.parent[n] # Null /\ h.dirtyWorld[n]}

=============================================================================
